---- MODULE Spec2Model ----
(***************************************************************************)
(* Model of the graphiti-ui backend: the graph-data aggregation of         *)
(* services/graphiti_service.py with its presentation transform in         *)
(* api/graph_api.py, the group lifecycle operations (delete, rename), the  *)
(* entity-type registry of services/entity_type_service.py and the API-key *)
(* store of services/api_key_service.py.                                   *)
(*                                                                         *)
(* Strings that the code inspects character by character (group names:     *)
(* strip, sorted) are tuples of one-character strings; opaque identifiers  *)
(* (uuids, dictionary keys) are TLA+ strings.  Dictionaries are functions  *)
(* over strings, so dict.get(key, default) is Get below.                   *)
(***************************************************************************)
EXTENDS Integers, Sequences, FiniteSets, TLC

VARIABLES
    graphs,      \* FalkorDB: graph key -> [nodes, edges], one graph per group
    writes,      \* number of writes applied to the data source so far
    fpc,         \* GET /graph/data handler: "idle", "nodes", "edges", "done"
    freq,        \* its request: [all, group_id, limit]
    floc,        \* its locals: group_ids, i, nodes_result, all_nodes, all_edges, seen sets
    fetched,     \* history: per visited group what _get_single_graph_data gave
    data,        \* the dict GraphitiClient.get_graph_data returned
    response,    \* the GraphDataResponse of the route
    rpc,         \* PUT /graph/group/{id}/rename handler: "idle", "copy", "retag_nodes",
                 \*   "retag_edges", "delete", "close", "done"
    rreq,        \* its request: [group_id, new_name] and the stripped name new
    rres,        \* the dict the route returned
    rhist,       \* history of the rename in flight: steps done, the failing step,
                 \*   the data-source commands sent, the graph as copied
    dpc,         \* DELETE /graph/group/{id} handler: "idle", "command", "close", "done"
    dreq,        \* the group it names
    dres,        \* the dict its route returned, and whether its command removed a graph
    requests,    \* number of lifecycle requests (rename, delete) received so far
    et_store,    \* Redis key graphiti:entity_types: absent, or the stored list
    et,          \* EntityTypeService calls in flight, per caller: pc ("idle", "set",
                 \*   "done"), op, name, the request body of an update, the local
                 \*   types_list, the result, and as history the list the key held
                 \*   when the call began, when the call read the key and when the
                 \*   caller last wrote it
    et_time,     \* the clock read by datetime.now, one tick per Redis command
    et_requests, \* number of entity-type requests received so far
    key_file,    \* /app/data/api_keys.json: absent, or its "keys" list
    key_data,    \* the dict _load_api_keys gave to the latest call
    key_result,  \* what the latest api_key_service call returned: the bool of delete
                 \*   and validate (ok), the dict of create or the list of list (value)
    key_log,     \* history: the keys generated, the key last presented to validate,
                 \*   and the keys that were created and not deleted since, each
                 \*   with the time of its last validation
    key_requests, \* number of create, delete and validate calls so far, also the
                 \*   clock of utcnow
    credentials, \* credentials.yaml: absent, or its content
    auth_result, \* the latest answer of a route other than the proxy: route, status,
                 \*   the cookie it set, and what its handling touched (effects)
    auth_log,    \* history: how many setups succeeded and the hash the first stored
    auth_requests, \* number of such requests so far, also the clock of token expiry
    proxy,       \* the proxy request being handled: its headers, where its handler
                 \*   is, its status, and (history) the keys that were live when
                 \*   its key was validated and the number of requests sent before it
    crud,        \* the latest node or edge request: the operation, its uuid, group
                 \*   and body, the dict it returned, and (history) the graphs as
                 \*   they were when it arrived
    fdb,         \* the latest call of FalkorDBClient.get_graph_data: its arguments
                 \*   and the dict it returned
    qry,         \* the latest Cypher query request: who served it, its text, the
                 \*   answer's success, what was sent to the data source, and
                 \*   whether a graph changed
    upstream     \* what was handed to the MCP server: how many requests, and the
                 \*   headers of the last one with the proxy request it came from

ds_vars == <<graphs, writes>>
fetch_vars == <<fpc, freq, floc, fetched, data, response>>
rename_vars == <<rpc, rreq, rres, rhist>>
delete_vars == <<dpc, dreq, dres>>
et_vars == <<et_store, et, et_time, et_requests>>
key_vars == <<key_file, key_data, key_result, key_log, key_requests>>
auth_vars == <<credentials, auth_result, auth_log, auth_requests>>
proxy_vars == <<proxy, upstream>>
crud_vars == <<crud, fdb, qry>>
vars == <<graphs, writes, fpc, freq, floc, fetched, data, response,
          rpc, rreq, rres, rhist, dpc, dreq, dres, requests,
          et_store, et, et_time, et_requests,
          key_file, key_data, key_result, key_log, key_requests,
          credentials, auth_result, auth_log, auth_requests, proxy, upstream, crud, fdb, qry>>

(***************************************************************************)
(* Bounds                                                                  *)
(***************************************************************************)
MaxWrites == 4
MaxLimit == 2
MaxGroupWrites == 2
MaxRequests == 2
MaxEtRequests == 3
MaxKeyRequests == 4
MaxAuthRequests == 4

(***************************************************************************)
(* Strings                                                                 *)
(***************************************************************************)
None == "None"

Main == <<"m", "a", "i", "n">>

\* Code points of the characters that occur in the modelled names.
CharCode(c) ==
    CASE c = " " -> 32
      [] c = "a" -> 97
      [] c = "b" -> 98
      [] c = "i" -> 105
      [] c = "m" -> 109
      [] c = "n" -> 110

RECURSIVE StrLess(_, _)
StrLess(s, t) ==
    IF t = <<>> THEN FALSE
    ELSE IF s = <<>> THEN TRUE
    ELSE IF CharCode(Head(s)) # CharCode(Head(t))
         THEN CharCode(Head(s)) < CharCode(Head(t))
    ELSE StrLess(Tail(s), Tail(t))

RECURSIVE sorted(_)
sorted(S) ==
    IF S = {} THEN <<>>
    ELSE LET m == CHOOSE x \in S : \A y \in S \ {x} : StrLess(x, y)
         IN  <<m>> \o sorted(S \ {m})

\* dict.get(key, default)
Get(d, key, default) == IF key \in DOMAIN d THEN d[key] ELSE default

Elems(s) == {s[i] : i \in 1..Len(s)}

Take(s, n) == SubSeq(s, 1, IF Len(s) < n THEN Len(s) ELSE n)

(***************************************************************************)
(* The data source                                                         *)
(***************************************************************************)
GroupIds == {<<"a">>, <<"b">>, Main}
NodeUuids == {"n1", "n2"}
EdgeUuids == {"e1", "e2"}

EmptyGraph == [nodes |-> <<>>, edges |-> <<>>]

StoredNodes(g) == IF g \in DOMAIN graphs THEN graphs[g].nodes ELSE <<>>
StoredEdges(g) == IF g \in DOMAIN graphs THEN graphs[g].edges ELSE <<>>

NodeUuidsOf(g) == {StoredNodes(g)[i].n.uuid : i \in 1..Len(StoredNodes(g))}
EdgeUuidsOf(g) == {StoredEdges(g)[i].r.uuid : i \in 1..Len(StoredEdges(g))}

\* group_id or settings.graphiti_group_id
get_driver(group_id) == IF group_id = <<>> THEN Main ELSE group_id

\* The history of the rename in flight when another request changes group g
\* once the copy was taken, be it before or after the rename has returned:
\* a write (kind "others") or a deletion ("deleted").
Noted(g, kind) ==
    IF rpc \in {"retag_nodes", "retag_edges", "delete", "close", "done"}
       /\ g \in {rreq.group_id, rreq.new}
    THEN [rhist EXCEPT ![kind] = @ \cup {g}]
    ELSE rhist

\* An entity node saved into the graph of group g (the graph is created by
\* its first write).  uuid is the caller's: one uuid can be written to two
\* groups, which is how equal uuids come to exist across groups.
create_entity_direct(g, u) ==
    /\ writes < MaxWrites
    /\ u \notin NodeUuidsOf(g)
    /\ LET rec == [n |-> [uuid |-> u, group_id |-> g], labels |-> <<"Entity">>]
           old == IF g \in DOMAIN graphs THEN graphs[g] ELSE EmptyGraph
       IN  graphs' = [k \in DOMAIN graphs \cup {g} |->
                        IF k = g THEN [old EXCEPT !.nodes = Append(@, rec)]
                        ELSE graphs[k]]
    /\ writes' = writes + 1
    /\ rhist' = Noted(g, "others")
    /\ UNCHANGED <<fetch_vars, rpc, rreq, rres, delete_vars, requests, et_vars, key_vars, auth_vars, crud_vars, proxy_vars>>

\* A RELATES_TO edge between two entity nodes of the same graph.
create_edge_direct(g, e, s, t) ==
    /\ writes < MaxWrites
    /\ g \in DOMAIN graphs
    /\ e \notin EdgeUuidsOf(g)
    /\ s \in NodeUuidsOf(g)
    /\ t \in NodeUuidsOf(g)
    /\ LET rec == [source |-> s, target |-> t, r |-> [uuid |-> e, group_id |-> g]]
       IN  graphs' = [graphs EXCEPT ![g].edges = Append(@, rec)]
    /\ writes' = writes + 1
    /\ rhist' = Noted(g, "others")
    /\ UNCHANGED <<fetch_vars, rpc, rreq, rres, delete_vars, requests, et_vars, key_vars, auth_vars, crud_vars, proxy_vars>>

(***************************************************************************)
(* GraphitiClient: graph data for visualization                            *)
(***************************************************************************)
\* Keys get_group_ids skips although they hold a graph.
EXCLUDED_GRAPHS == {<<"g", "r", "a", "p", "h", "i", "t", "i">>,
                    <<"d", "e", "f", "a", "u", "l", "t", "_", "d", "b">>}

IsPrefix(p, s) == Len(p) <= Len(s) /\ SubSeq(s, 1, Len(p)) = p

\* The group ids the key scan returns: every graph key but the internal ones,
\* sorted.
get_group_ids ==
    sorted({k \in DOMAIN graphs :
              /\ ~IsPrefix(<<"_">>, k)
              /\ ~IsPrefix(<<"g", "r", "a", "p", "h", "i", "t", "i", ":">>, k)
              /\ ~IsPrefix(<<"t", "e", "l", "e", "m", "e", "t", "r", "y", "{">>, k)
              /\ k \notin EXCLUDED_GRAPHS})

standard_props == {"uuid", "name", "summary", "group_id", "created_at",
                   "name_embedding", "summary_embedding", "labels"}

\* k.endswith("_embedding"), over the property keys the model writes.
\* k.endswith("_embedding") answering no for every key.
EndsWithEmbedding_never(k) == FALSE

EndsWithEmbedding(k) ==
    k \in {"name_embedding", "summary_embedding", "fact_embedding", "face_embedding"}

transform_node(record, group_id) ==
    LET labels == IF "Entity" \in Elems(record.labels)
                  THEN SelectSeq(record.labels, LAMBDA l : l # "Entity")
                  ELSE record.labels
        props == record.n
        keep == {k \in DOMAIN props : k \notin standard_props /\ ~EndsWithEmbedding(k)}
    IN  [id |-> Get(props, "uuid", None),
         uuid |-> Get(props, "uuid", None),
         name |-> Get(props, "name", None),
         summary |-> Get(props, "summary", ""),
         group_id |-> Get(props, "group_id", group_id),
         created_at |-> Get(props, "created_at", None),
         labels |-> labels,
         type |-> IF labels # <<>> THEN labels[1] ELSE "Entity",
         attributes |-> [k \in keep |-> props[k]]]

transform_nodes(nodes_result, group_id) ==
    [i \in 1..Len(nodes_result) |-> transform_node(nodes_result[i], group_id)]

transform_edge(record, group_id) ==
    LET props == record.r
    IN  [uuid |-> Get(props, "uuid", ""),
         source |-> record.source,
         target |-> record.target,
         name |-> Get(props, "name", ""),
         fact |-> Get(props, "fact", ""),
         group_id |-> Get(props, "group_id", group_id),
         created_at |-> Get(props, "created_at", ""),
         valid_at |-> Get(props, "valid_at", None),
         expired_at |-> Get(props, "expired_at", None),
         episodes |-> Get(props, "episodes", <<>>)]

transform_edges(edges_result, group_id) ==
    [i \in 1..Len(edges_result) |-> transform_edge(edges_result[i], group_id)]

\* merge_nodes without the seen-id test: every node is appended.
merge_nodes_no_dedup(all, seen, nodes) ==
    [all |-> all \o nodes, seen |-> seen \cup {nodes[i].id : i \in 1..Len(nodes)}]

\* for node in result["nodes"]: keep it unless its id was seen.
RECURSIVE merge_nodes(_, _, _)
merge_nodes(all, seen, nodes) ==
    IF nodes = <<>> THEN [all |-> all, seen |-> seen]
    ELSE IF Head(nodes).id \notin seen
         THEN merge_nodes(Append(all, Head(nodes)), seen \cup {Head(nodes).id}, Tail(nodes))
         ELSE merge_nodes(all, seen, Tail(nodes))

\* for edge in result["edges"]: keep it unless its uuid was seen.
RECURSIVE merge_edges(_, _, _)
merge_edges(all, seen, edges) ==
    IF edges = <<>> THEN [all |-> all, seen |-> seen]
    ELSE IF Head(edges).uuid \notin seen
         THEN merge_edges(Append(all, Head(edges)), seen \cup {Head(edges).uuid}, Tail(edges))
         ELSE merge_edges(all, seen, Tail(edges))

Failure(error) == [success |-> FALSE, nodes |-> <<>>, edges |-> <<>>, error |-> error]

(***************************************************************************)
(* api/graph_api.py: the route's presentation transform                    *)
(***************************************************************************)
transformed_node(node) ==
    [id |-> Get(node, "uuid", ""),
     name |-> Get(node, "name", "Unknown"),
     type |-> Get(node, "primaryLabel", "Entity"),
     group_id |-> Get(node, "group_id", ""),
     summary |-> Get(node, "summary", ""),
     labels |-> Get(node, "labels", <<>>),
     created_at |-> Get(node, "created_at", ""),
     attributes |-> LET a == Get(node, "attributes", <<>>)
                    IN  [k \in {k \in DOMAIN a : ~EndsWithEmbedding(k)} |-> a[k]]]

transformed_edge(edge) ==
    [source |-> Get(edge, "source_node_uuid", ""),
     target |-> Get(edge, "target_node_uuid", ""),
     type |-> IF Get(edge, "name", None) \notin {None, ""}
              THEN edge["name"] ELSE Get(edge, "type", "RELATES_TO"),
     fact |-> Get(edge, "fact", ""),
     uuid |-> Get(edge, "uuid", ""),
     created_at |-> Get(edge, "created_at", ""),
     valid_at |-> Get(edge, "valid_at", None),
     expired_at |-> Get(edge, "expired_at", None),
     episodes |-> Get(edge, "episodes", <<>>)]

ZeroStats == [node_count |-> 0, edge_count |-> 0, label_count |-> 0]

\* GraphDataResponse built from the client's dict d.
GraphDataResponse(d) ==
    IF ~Get(d, "success", FALSE)
    THEN [success |-> FALSE, nodes |-> <<>>, edges |-> <<>>, triplets |-> <<>>,
          labels |-> <<>>, stats |-> ZeroStats, error |-> Get(d, "error", "Unknown error")]
    ELSE [success |-> TRUE,
          nodes |-> [i \in 1..Len(Get(d, "nodes", <<>>)) |-> transformed_node(d.nodes[i])],
          edges |-> [i \in 1..Len(Get(d, "edges", <<>>)) |-> transformed_edge(d.edges[i])],
          triplets |-> Get(d, "triplets", <<>>),
          labels |-> Get(d, "labels", <<>>),
          stats |-> Get(d, "stats", <<>>),
          error |-> None]

(***************************************************************************)
(* The GET /graph/data handler, one action per await                       *)
(***************************************************************************)
NoData == [success |-> FALSE, nodes |-> <<>>, edges |-> <<>>, error |-> "no request"]

FreshLocals(groups_ok, group_ids) ==
    [groups_ok |-> groups_ok, group_ids |-> group_ids, i |-> 1, nodes_result |-> <<>>,
     all_nodes |-> <<>>, all_edges |-> <<>>, seen_node_ids |-> {}, seen_edge_ids |-> {}]

\* The client returns d and the route answers with its GraphDataResponse.
Return(d, loc) ==
    /\ fpc' = "done"
    /\ floc' = loc
    /\ data' = d
    /\ response' = GraphDataResponse(d)

\* for gid in group_ids: the next group, or the merged result after the last.
Continue(loc) ==
    IF loc.i < Len(loc.group_ids)
    THEN /\ fpc' = "nodes"
         /\ floc' = [loc EXCEPT !.i = @ + 1, !.nodes_result = <<>>]
         /\ UNCHANGED <<data, response>>
    ELSE Return([success |-> TRUE, nodes |-> loc.all_nodes, edges |-> loc.all_edges], loc)

\* get_graph_data_all taking a failed key scan for an empty list of groups.
get_graph_data_all_enum_ignored(limit, enum_ok) ==
    /\ fpc \in {"idle", "done"}
    /\ freq' = [all |-> TRUE, group_id |-> <<>>, limit |-> limit]
    /\ fetched' = <<>>
    /\ IF ~enum_ok \/ get_group_ids = <<>>
       THEN Return([success |-> TRUE, nodes |-> <<>>, edges |-> <<>>],
                   FreshLocals(enum_ok, <<>>))
       ELSE /\ fpc' = "nodes"
            /\ floc' = FreshLocals(TRUE, get_group_ids)
            /\ data' = NoData
            /\ response' = GraphDataResponse(NoData)
    /\ UNCHANGED <<ds_vars, rename_vars, delete_vars, requests, et_vars, key_vars, auth_vars, crud_vars, proxy_vars>>

\* group_id omitted: _get_all_graphs_data up to its first per-group query.
\* enum_ok is whether the key scan of get_group_ids went through.
get_graph_data_all(limit, enum_ok) ==
    /\ fpc \in {"idle", "done"}
    /\ freq' = [all |-> TRUE, group_id |-> <<>>, limit |-> limit]
    /\ fetched' = <<>>
    /\ IF ~enum_ok
       THEN Return(Failure("Failed to get groups"), FreshLocals(FALSE, <<>>))
       ELSE IF get_group_ids = <<>>
       THEN Return([success |-> TRUE, nodes |-> <<>>, edges |-> <<>>],
                   FreshLocals(TRUE, <<>>))
       ELSE /\ fpc' = "nodes"
            /\ floc' = FreshLocals(TRUE, get_group_ids)
            /\ data' = NoData
            /\ response' = GraphDataResponse(NoData)
    /\ UNCHANGED <<ds_vars, rename_vars, delete_vars, requests, et_vars, key_vars, auth_vars, crud_vars, proxy_vars>>

\* group_id given: _get_single_graph_data for that group alone.
get_graph_data_single(group_id, limit) ==
    /\ fpc \in {"idle", "done"}
    /\ freq' = [all |-> FALSE, group_id |-> group_id, limit |-> limit]
    /\ fetched' = <<>>
    /\ fpc' = "nodes"
    /\ floc' = FreshLocals(TRUE, <<group_id>>)
    /\ data' = NoData
    /\ response' = GraphDataResponse(NoData)
    /\ UNCHANGED <<ds_vars, rename_vars, delete_vars, requests, et_vars, key_vars, auth_vars, crud_vars, proxy_vars>>

\* Raised without the loop's try/except: the exception ends the whole fetch.
Raised_propagates(gid) ==
    /\ fetched' = Append(fetched, [gid |-> gid, ok |-> FALSE,
                                   nodes |-> <<>>, edges |-> <<>>])
    /\ Return(Failure("query failed"), floc)

\* What the current group's query raising leads to: the loop of an all-groups
\* fetch logs it and goes on, a single-group fetch fails in get_graph_data.
Raised(gid) ==
    IF freq.all
    THEN /\ fetched' = Append(fetched, [gid |-> gid, ok |-> FALSE,
                                        nodes |-> <<>>, edges |-> <<>>])
         /\ Continue(floc)
    ELSE /\ fetched' = fetched
         /\ Return(Failure("query failed"), floc)

\* MATCH (n:Entity) RETURN n, labels(n) LIMIT $limit
query_nodes(ok) ==
    /\ fpc = "nodes"
    /\ LET gid == floc.group_ids[floc.i]
       IN  IF ok
           THEN /\ fpc' = "edges"
                /\ floc' = [floc EXCEPT !.nodes_result =
                              Take(StoredNodes(get_driver(gid)), freq.limit)]
                /\ UNCHANGED <<fetched, data, response>>
           ELSE Raised(gid)
    /\ UNCHANGED <<ds_vars, freq, rename_vars, delete_vars, requests, et_vars, key_vars, auth_vars, crud_vars, proxy_vars>>

\* MATCH (a:Entity)-[r:RELATES_TO]->(b:Entity) ... LIMIT $limit, the two
\* transforms, and for an all-groups fetch the merge of the group's result.
query_edges(ok) ==
    /\ fpc = "edges"
    /\ LET gid == floc.group_ids[floc.i]
           nodes == transform_nodes(floc.nodes_result, gid)
           edges == transform_edges(Take(StoredEdges(get_driver(gid)), freq.limit), gid)
           mn == merge_nodes(floc.all_nodes, floc.seen_node_ids, nodes)
           me == merge_edges(floc.all_edges, floc.seen_edge_ids, edges)
       IN  IF ~ok THEN Raised(gid)
           ELSE IF freq.all
           THEN /\ fetched' = Append(fetched, [gid |-> gid, ok |-> TRUE,
                                               nodes |-> nodes, edges |-> edges])
                /\ Continue([floc EXCEPT !.all_nodes = mn.all, !.seen_node_ids = mn.seen,
                                         !.all_edges = me.all, !.seen_edge_ids = me.seen])
           ELSE /\ fetched' = Append(fetched, [gid |-> gid, ok |-> TRUE,
                                               nodes |-> nodes, edges |-> edges])
                /\ Return([success |-> TRUE, nodes |-> nodes, edges |-> edges], floc)
    /\ UNCHANGED <<ds_vars, freq, rename_vars, delete_vars, requests, et_vars, key_vars, auth_vars, crud_vars, proxy_vars>>

Limits == 1..MaxLimit

NoHistory == [steps |-> {}, failed_at |-> "none", commands |-> 0,
              copied |-> EmptyGraph, dropped |-> EmptyGraph,
              others |-> {}, deleted |-> {}]

\* The entity-type registry before any request: the Redis key is absent and
\* no caller is inside EntityTypeService.
Procs == {"p1", "p2"}
NoTime == 0
NoKey == [exists |-> FALSE, value |-> <<>>]
NoResult == [status |-> "none yet", value |-> <<>>]
NoBody == [empty |-> TRUE]
IdleProc == [pc |-> "idle", op |-> "none", name |-> None, body |-> NoBody,
             read |-> <<>>, types_list |-> <<>>, result |-> NoResult,
             read_at |-> NoTime, wrote_at |-> NoTime]

\* The admin credential before the first request: no credentials.yaml.
NoHash == <<>>
NoCookie == <<>>
DEFAULT_CREDENTIALS == [admin |-> [password_hash |-> NoHash, initialized |-> FALSE]]
NoCredentials == [exists |-> FALSE, content |-> DEFAULT_CREDENTIALS]
NoHeader == <<>>
NoAnswer == [route |-> "none", status |-> 0, set_cookie |-> NoCookie, effects |-> {},
             request |-> [access_token |-> NoCookie, authorization |-> NoHeader]]

\* The API-key store before any call: no file, which loads as {"keys": []}.
NoHeaders == <<>>
IdleProxy == [pc |-> "idle", request |-> NoHeaders, status |-> 0, live |-> {}, sent_before |-> 0]
NoFile == [exists |-> FALSE, keys |-> <<>>]

Init ==
    /\ graphs = <<>>
    /\ writes = 0
    /\ fpc = "idle"
    /\ freq = [all |-> TRUE, group_id |-> <<>>, limit |-> 1]
    /\ floc = FreshLocals(TRUE, <<>>)
    /\ fetched = <<>>
    /\ data = NoData
    /\ response = GraphDataResponse(NoData)
    /\ rpc = "idle"
    /\ rreq = [group_id |-> <<>>, new_name |-> <<>>, new |-> <<>>]
    /\ rres = [success |-> FALSE, error |-> "no request"]
    /\ rhist = NoHistory
    /\ dpc = "idle"
    /\ dreq = <<>>
    /\ dres = [success |-> FALSE, removed |-> FALSE]
    /\ requests = 0
    /\ et_store = NoKey
    /\ et = [p \in Procs |-> IdleProc]
    /\ et_time = 0
    /\ et_requests = 0
    /\ key_file = NoFile
    /\ key_data = [keys |-> <<>>]
    /\ key_result = [op |-> "none", ok |-> FALSE, value |-> <<>>]
    /\ key_log = [generated |-> {}, expected |-> {}, presented |-> <<>>]
    /\ key_requests = 0
    /\ credentials = NoCredentials
    /\ auth_result = NoAnswer
    /\ auth_log = [setups |-> 0, first_hash |-> NoHash]
    /\ auth_requests = 0
    /\ proxy = IdleProxy
    /\ upstream = [sent |-> 0, headers |-> NoHeaders, by |-> IdleProxy]
    /\ crud = [op |-> "none", uuid |-> None, group_id |-> <<>>, body |-> NoBody,
               result |-> [success |-> FALSE, error |-> "none yet", data |-> <<>>],
               before |-> <<>>]
    /\ fdb = [called |-> FALSE, limit |-> 0, group_id |-> <<>>,
              result |-> [nodes |-> <<>>, edges |-> <<>>, all_labels |-> {},
                          stats |-> ZeroStats]]
    /\ qry = [by |-> "none", query |-> <<>>, success |-> FALSE, sent |-> {},
              changed |-> FALSE]

Next ==
    \/ \E g \in GroupIds, u \in NodeUuids : create_entity_direct(g, u)
    \/ \E g \in GroupIds, e \in EdgeUuids, s, t \in NodeUuids : create_edge_direct(g, e, s, t)
    \/ \E limit \in Limits, enum_ok \in BOOLEAN : get_graph_data_all(limit, enum_ok)
    \/ \E g \in GroupIds \cup {<<>>}, limit \in Limits : get_graph_data_single(g, limit)
    \/ \E ok \in BOOLEAN : query_nodes(ok)
    \/ \E ok \in BOOLEAN : query_edges(ok)

Spec == Init /\ [][Next]_vars

(***************************************************************************)
(* Properties of the all-groups fetch                                      *)
(***************************************************************************)
AllDone == fpc = "done" /\ freq.all

Ids(seq, key) == {seq[i][key] : i \in 1..Len(seq)}

Once(seq, key) == \A i, j \in 1..Len(seq) : seq[i][key] = seq[j][key] => i = j

\* The records of the groups visited before the k-th hold no record whose key is v.
FirstSeenAt(k, field, key, v) ==
    \A j \in 1..(k - 1) : v \notin Ids(fetched[j][field], key)

\* merged holds exactly the first-seen copy of every record the groups returned.
MergedFirstSeen(merged, field, key) ==
    /\ Once(merged, key)
    /\ Elems(merged) \subseteq UNION {Elems(fetched[k][field]) : k \in 1..Len(fetched)}
    /\ \A k \in 1..Len(fetched) : \A r \in Elems(fetched[k][field]) :
          FirstSeenAt(k, field, key, r[key]) => r \in Elems(merged)

\* C1: the result of an all-groups fetch holds each node uuid and each edge
\* uuid at most once, in the service's dict and in the route's response, and
\* the copy kept of a uuid that several groups returned is the one of the
\* first group, in iteration order, that returned it.
C1_DedupFirstWins ==
    (AllDone /\ data.success) =>
        /\ MergedFirstSeen(data.nodes, "nodes", "id")
        /\ MergedFirstSeen(data.edges, "edges", "uuid")
        /\ Once(response.nodes, "id")
        /\ Once(response.edges, "uuid")

\* Two groups returned different copies of one node uuid and the fetch is over.
C1_Witness ==
    /\ AllDone /\ data.success
    /\ \E j, k \in 1..Len(fetched) :
          /\ j < k
          /\ \E m \in Elems(fetched[j].nodes), n \in Elems(fetched[k].nodes) :
                m.id = n.id /\ m # n /\ m \in Elems(data.nodes)

\* C2: when the query of a group raises during an all-groups fetch, the call
\* still succeeds and returns exactly the deduplicated nodes and edges of the
\* groups whose queries went through, those before the failing group and
\* those after it.
C2_PartialFailure ==
    (AllDone /\ floc.groups_ok /\ \E k \in 1..Len(fetched) : ~fetched[k].ok) =>
        /\ data.success /\ response.success
        /\ Len(fetched) = Len(floc.group_ids)
        /\ MergedFirstSeen(data.nodes, "nodes", "id")
        /\ MergedFirstSeen(data.edges, "edges", "uuid")
        /\ Ids(response.nodes, "id") = Ids(data.nodes, "id")

\* Three groups, the second raised, and the result holds a node of the first
\* and a node of the third.
C2_Witness ==
    /\ AllDone /\ Len(fetched) = 3
    /\ fetched[1].ok /\ ~fetched[2].ok /\ fetched[3].ok
    /\ \E m \in Elems(fetched[1].nodes), n \in Elems(fetched[3].nodes) :
          m.id # n.id /\ {m, n} \subseteq Elems(data.nodes)

\* C3: an all-groups fetch returns success=false exactly when the group
\* enumeration failed: neither a failing per-group query nor an empty list
\* of groups makes it fail.
C3_FailsOnlyOnEnumeration ==
    AllDone => /\ data.success = floc.groups_ok
               /\ response.success = floc.groups_ok

\* Every per-group query of an all-groups fetch raised and the call succeeded.
C3_Witness ==
    /\ AllDone /\ Len(fetched) >= 2
    /\ \A k \in 1..Len(fetched) : ~fetched[k].ok
    /\ data.success /\ response.success

\* C4: in every graph-data result returned for visualization both endpoints
\* of every edge are uuids of nodes of the same result.
C4_EdgeEndpointsInNodes ==
    (fpc = "done" /\ data.success) =>
        \A e \in Elems(data.edges) :
            e.source \in Ids(data.nodes, "id") /\ e.target \in Ids(data.nodes, "id")

(***************************************************************************)
(* Group lifecycle: DELETE /graph/group/{id} and PUT .../rename            *)
(*                                                                         *)
(* A data-source command that fails raises before it has changed anything. *)
(* GRAPH.COPY raises when the source is missing or the destination exists, *)
(* GRAPH.DELETE when the graph is missing.                                 *)
(***************************************************************************)
Whitespace == {" "}

RECURSIVE lstrip(_)
lstrip(s) == IF s # <<>> /\ Head(s) \in Whitespace THEN lstrip(Tail(s)) ELSE s

RECURSIVE rstrip(_)
rstrip(s) ==
    IF s # <<>> /\ s[Len(s)] \in Whitespace THEN rstrip(SubSeq(s, 1, Len(s) - 1)) ELSE s

strip(s) == rstrip(lstrip(s))

Without(g) == [k \in DOMAIN graphs \ {g} |-> graphs[k]]

\* The route's checks of new_name, then GraphitiClient.rename_graph up to its
\* first command.
rename_graph(group_id, new_name) ==
    /\ rpc \in {"idle", "done"}
    /\ requests < MaxRequests
    /\ requests' = requests + 1
    /\ rreq' = [group_id |-> group_id, new_name |-> new_name, new |-> strip(new_name)]
    /\ rhist' = NoHistory
    /\ IF new_name = <<>> \/ strip(new_name) = <<>>
       THEN /\ rpc' = "done"
            /\ rres' = [success |-> FALSE, error |-> "New name cannot be empty"]
       ELSE IF strip(new_name) = group_id
       THEN /\ rpc' = "done"
            /\ rres' = [success |-> FALSE, error |-> "New name is the same as current name"]
       ELSE /\ rpc' = "copy"
            /\ rres' = [success |-> FALSE, error |-> "pending"]
    /\ UNCHANGED <<ds_vars, fetch_vars, delete_vars, et_vars, key_vars, auth_vars, crud_vars, proxy_vars>>

\* except Exception: the step raised, the route answers success=false.
RenameRaised(step) ==
    /\ rpc' = "done"
    /\ rres' = [success |-> FALSE, error |-> "Failed to rename graph"]
    /\ rhist' = [rhist EXCEPT !.failed_at = step, !.commands = @ + 1]
    /\ UNCHANGED graphs

RenameStepped(step, next) ==
    /\ rpc' = next
    /\ rhist' = [rhist EXCEPT !.steps = @ \cup {step}, !.commands = @ + 1]
    /\ UNCHANGED rres

\* rename_copy done as a move: the source key is gone once the copy exists.
rename_copy_moves(ok) ==
    /\ rpc = "copy"
    /\ IF ok /\ rreq.group_id \in DOMAIN graphs /\ rreq.new \notin DOMAIN graphs
       THEN /\ graphs' = [k \in (DOMAIN graphs \ {rreq.group_id}) \cup {rreq.new} |->
                            IF k = rreq.new THEN graphs[rreq.group_id] ELSE graphs[k]]
            /\ rpc' = "retag_nodes"
            /\ rhist' = [rhist EXCEPT !.steps = @ \cup {"copy"}, !.commands = @ + 1,
                                      !.copied = graphs[rreq.group_id]]
            /\ UNCHANGED rres
       ELSE RenameRaised("copy")
    /\ UNCHANGED <<writes, rreq, fetch_vars, delete_vars, requests, et_vars, key_vars, auth_vars, crud_vars, proxy_vars>>

\* Step 1: GRAPH.COPY group_id new_name
rename_copy(ok) ==
    /\ rpc = "copy"
    /\ IF ok /\ rreq.group_id \in DOMAIN graphs /\ rreq.new \notin DOMAIN graphs
       THEN /\ graphs' = [k \in DOMAIN graphs \cup {rreq.new} |->
                            IF k = rreq.new THEN graphs[rreq.group_id] ELSE graphs[k]]
            /\ rpc' = "retag_nodes"
            /\ rhist' = [rhist EXCEPT !.steps = @ \cup {"copy"}, !.commands = @ + 1,
                                      !.copied = graphs[rreq.group_id]]
            /\ UNCHANGED rres
       ELSE RenameRaised("copy")
    /\ UNCHANGED <<writes, rreq, fetch_vars, delete_vars, requests, et_vars, key_vars, auth_vars, crud_vars, proxy_vars>>

\* SetNodeGroup leaving the property as it was copied.
SetNodeGroup_skipped(rec, new_id) == rec

SetNodeGroup(rec, new_id) == [rec EXCEPT !.n = [k \in DOMAIN rec.n \cup {"group_id"} |->
                                                  IF k = "group_id" THEN new_id ELSE rec.n[k]]]

SetEdgeGroup(rec, new_id) == [rec EXCEPT !.r = [k \in DOMAIN rec.r \cup {"group_id"} |->
                                                  IF k = "group_id" THEN new_id ELSE rec.r[k]]]

\* Step 2, first query: MATCH (n) SET n.group_id = $new_id in the new graph
rename_retag_nodes(ok) ==
    /\ rpc = "retag_nodes"
    /\ IF ok
       THEN /\ graphs' = [k \in DOMAIN graphs |->
                            IF k = rreq.new
                            THEN [graphs[k] EXCEPT !.nodes =
                                    [i \in 1..Len(@) |-> SetNodeGroup(@[i], rreq.new)]]
                            ELSE graphs[k]]
            /\ RenameStepped("retag_nodes", "retag_edges")
       ELSE RenameRaised("retag_nodes")
    /\ UNCHANGED <<writes, rreq, fetch_vars, delete_vars, requests, et_vars, key_vars, auth_vars, crud_vars, proxy_vars>>

\* Step 2, second query: MATCH ()-[r]->() SET r.group_id = $new_id
rename_retag_edges(ok) ==
    /\ rpc = "retag_edges"
    /\ IF ok
       THEN /\ graphs' = [k \in DOMAIN graphs |->
                            IF k = rreq.new
                            THEN [graphs[k] EXCEPT !.edges =
                                    [i \in 1..Len(@) |-> SetEdgeGroup(@[i], rreq.new)]]
                            ELSE graphs[k]]
            /\ RenameStepped("retag_edges", "delete")
       ELSE RenameRaised("retag_edges")
    /\ UNCHANGED <<writes, rreq, fetch_vars, delete_vars, requests, et_vars, key_vars, auth_vars, crud_vars, proxy_vars>>

\* Step 3: GRAPH.DELETE group_id
rename_delete(ok) ==
    /\ rpc = "delete"
    /\ IF ok /\ rreq.group_id \in DOMAIN graphs
       THEN /\ graphs' = Without(rreq.group_id)
            /\ rpc' = "close"
            /\ rhist' = [rhist EXCEPT !.steps = @ \cup {"delete"}, !.commands = @ + 1,
                                      !.dropped = graphs[rreq.group_id]]
            /\ UNCHANGED rres
       ELSE RenameRaised("delete")
    /\ UNCHANGED <<writes, rreq, fetch_vars, delete_vars, requests, et_vars, key_vars, auth_vars, crud_vars, proxy_vars>>

\* await r.aclose(), then the success dict
rename_close(ok) ==
    /\ rpc = "close"
    /\ rpc' = "done"
    /\ IF ok
       THEN /\ rres' = [success |-> TRUE, new_name |-> rreq.new]
            /\ UNCHANGED rhist
       ELSE /\ rres' = [success |-> FALSE, error |-> "Failed to rename graph"]
            /\ rhist' = [rhist EXCEPT !.failed_at = "close"]
    /\ UNCHANGED <<ds_vars, rreq, fetch_vars, delete_vars, requests, et_vars, key_vars, auth_vars, crud_vars, proxy_vars>>

\* DELETE /graph/group/{group_id}: the route calls GraphitiClient.delete_graph.
delete_graph(group_id) ==
    /\ dpc \in {"idle", "done"}
    /\ requests < MaxRequests
    /\ requests' = requests + 1
    /\ dpc' = "command"
    /\ dreq' = group_id
    /\ dres' = [success |-> FALSE, removed |-> FALSE]
    /\ UNCHANGED <<ds_vars, fetch_vars, rename_vars, et_vars, key_vars, auth_vars, crud_vars, proxy_vars>>

\* GRAPH.DELETE group_id
delete_command(ok) ==
    /\ dpc = "command"
    /\ IF ok /\ dreq \in DOMAIN graphs
       THEN /\ graphs' = Without(dreq)
            /\ dpc' = "close"
            /\ dres' = [dres EXCEPT !.removed = TRUE]
            /\ rhist' = Noted(dreq, "deleted")
       ELSE /\ dpc' = "done"
            /\ UNCHANGED <<graphs, dres, rhist>>
    /\ UNCHANGED <<writes, dreq, fetch_vars, rpc, rreq, rres, requests, et_vars, key_vars, auth_vars, crud_vars, proxy_vars>>

\* await r.aclose(), then the success dict
delete_close(ok) ==
    /\ dpc = "close"
    /\ dpc' = "done"
    /\ dres' = [dres EXCEPT !.success = ok]
    /\ UNCHANGED <<ds_vars, dreq, fetch_vars, rename_vars, requests, et_vars, key_vars, auth_vars, crud_vars, proxy_vars>>

\* Group names of the lifecycle requests: one carries a trailing blank.
Names == {<<"a">>, <<"a", " ">>, Main}
NewNames == {<<>>, <<" ">>, <<"a">>, <<"a", " ">>, <<"b">>}

NextGroups ==
    \/ \E g \in Names, u \in NodeUuids :
          writes < MaxGroupWrites /\ create_entity_direct(g, u)
    \/ \E g \in Names, s, t \in NodeUuids :
          writes < MaxGroupWrites /\ create_edge_direct(g, "e1", s, t)
    \/ \E g \in Names, new_name \in NewNames : rename_graph(g, new_name)
    \/ \E ok \in BOOLEAN : rename_copy(ok)
    \/ \E ok \in BOOLEAN : rename_retag_nodes(ok)
    \/ \E ok \in BOOLEAN : rename_retag_edges(ok)
    \/ \E ok \in BOOLEAN : rename_delete(ok)
    \/ \E ok \in BOOLEAN : rename_close(ok)
    \/ \E g \in Names : delete_graph(g)
    \/ \E ok \in BOOLEAN : delete_command(ok)
    \/ \E ok \in BOOLEAN : delete_close(ok)

SpecGroups == Init /\ [][NextGroups]_vars

(***************************************************************************)
(* Properties of the group lifecycle                                       *)
(***************************************************************************)
Old == rreq.group_id
New == rreq.new

HoldsAll(g, snap) ==
    /\ g \in DOMAIN graphs
    /\ Elems(snap.nodes) \subseteq Elems(graphs[g].nodes)
    /\ Elems(snap.edges) \subseteq Elems(graphs[g].edges)

AllSteps == {"copy", "retag_nodes", "retag_edges", "delete"}

\* C5: a rename that fails after its copy and before its deletion of the old
\* graph returns success=false, and (no other request having deleted either
\* graph meanwhile) the old group still holds all the data it had and both
\* names exist; success=true is returned only after the copy, both re-tagging
\* queries and the deletion have completed.
C5_FailedRenameKeepsOld ==
    /\ (rpc = "done" /\ rhist.failed_at \in {"retag_nodes", "retag_edges"}) =>
          /\ ~rres.success
          /\ rhist.deleted = {} => (HoldsAll(Old, rhist.copied) /\ New \in DOMAIN graphs)
    /\ (rpc = "done" /\ rres.success) => rhist.steps = AllSteps

\* A rename of a group holding a node failed at its second re-tagging query.
C5_Witness ==
    /\ rpc = "done" /\ rhist.failed_at = "retag_edges" /\ ~rres.success
    /\ rhist.copied.nodes # <<>> /\ rhist.deleted = {}
    /\ {Old, New} \subseteq DOMAIN graphs

\* new holds a record of uuid u (a node's with field "n", an edge's with "r")
\* whose group_id is new.
MovedTo(new, stored, field, u) ==
    \E i \in 1..Len(stored) :
        stored[i][field].uuid = u /\ stored[i][field].group_id = new

\* C6 as stated: after a successful rename the old group does not exist and
\* every node and edge the old group held, up to its deletion, is in the new
\* group with group_id = new.
C6_NothingLost ==
    (rpc = "done" /\ rres.success) =>
        /\ Old \notin DOMAIN graphs
        /\ \A rec \in Elems(rhist.dropped.nodes) :
              MovedTo(New, StoredNodes(New), "n", rec.n.uuid)
        /\ \A rec \in Elems(rhist.dropped.edges) :
              MovedTo(New, StoredEdges(New), "r", rec.r.uuid)

\* C6 as amended: after a successful rename during which no other request
\* changed the old or the new group once the copy was taken, the old group
\* does not exist and the new group holds exactly the nodes and edges the old
\* one held, each with group_id = new.
C6_RenameMovesCopied ==
    (rpc = "done" /\ rres.success /\ rhist.others = {} /\ rhist.deleted = {}) =>
        /\ Old \notin DOMAIN graphs
        /\ New \in DOMAIN graphs
        /\ rhist.dropped = rhist.copied
        /\ StoredNodes(New) = [i \in 1..Len(rhist.copied.nodes) |->
                                 SetNodeGroup(rhist.copied.nodes[i], New)]
        /\ StoredEdges(New) = [i \in 1..Len(rhist.copied.edges) |->
                                 SetEdgeGroup(rhist.copied.edges[i], New)]
        /\ \A rec \in Elems(StoredNodes(New)) : rec.n.group_id = New
        /\ \A rec \in Elems(StoredEdges(New)) : rec.r.group_id = New

\* A group holding a node and an edge was renamed undisturbed.
C6_Witness ==
    /\ rpc = "done" /\ rres.success /\ rhist.others = {} /\ rhist.deleted = {}
    /\ rhist.copied.nodes # <<>> /\ rhist.copied.edges # <<>>
    /\ \A rec \in Elems(rhist.copied.nodes) : rec.n.group_id = Old

Blank(s) == \A i \in 1..Len(s) : s[i] \in Whitespace

\* C7: a rename request whose new name is empty, whitespace-only or equal to
\* the current group name is answered success=false without any command
\* having been sent to the data source.
C7_InvalidNameRejected ==
    (rpc # "idle" /\ (Blank(rreq.new_name) \/ rreq.new_name = rreq.group_id)) =>
        /\ rhist.commands = 0
        /\ rpc = "done" => ~rres.success

\* C8: no delete request naming the default group removes its graph.
C8_DefaultGroupKept == ~(dreq = Main /\ dres.removed)

(***************************************************************************)
(* services/entity_type_service.py: EntityTypeService                      *)
(*                                                                         *)
(* Every method reads the whole collection with `await r.get`, works on    *)
(* the decoded list and writes the whole list back with `await r.set`.     *)
(* The code between two awaits runs without interruption, so a call is one *)
(* action up to its r.get reply and one action for its r.set.              *)
(***************************************************************************)
TypeNames == {"Person", "PERSON"}
Updates == {[description |-> "d2"], [fields |-> <<"f1">>], [fields |-> <<>>],
            [description |-> "d2", fields |-> <<"f1">>]}

\* EntityType.__init__ followed by to_dict
EntityType(name, description, fields, source, created_at, modified_at, now) ==
    [name |-> name, description |-> description, fields |-> fields, source |-> source,
     created_at |-> IF created_at = NoTime THEN now ELSE created_at,
     modified_at |-> modified_at]

\* `json.loads(data) if data else []` of create; the service stores a list
to_list(store) == IF store.exists THEN store.value ELSE <<>>

\* create without its check of the name.
HasName_unchecked(types_list, name) == FALSE

HasName(types_list, name) == \E i \in 1..Len(types_list) : types_list[i].name = name

\* the index the loop of update stops at
FirstNamed(types_list, name) ==
    CHOOSE i \in 1..Len(types_list) :
        /\ types_list[i].name = name
        /\ \A j \in 1..(i - 1) : types_list[j].name # name

\* [t for t in types_list if t.get("name") != name]
RECURSIVE Filtered(_, _)
Filtered(types_list, name) ==
    IF types_list = <<>> THEN <<>>
    ELSE LET rest == Filtered(Tail(types_list), name)
         IN IF Head(types_list).name # name THEN <<Head(types_list)>> \o rest ELSE rest

Free(p) == et[p].pc \in {"idle", "done"} /\ et_requests < MaxEtRequests

\* The call of p returns (or raises) without writing; types_list is its local
\* list at that point.
Returned(p, op, name, status, value, types_list) ==
    [pc |-> "done", op |-> op, name |-> name, body |-> NoBody,
     read |-> to_list(et_store), types_list |-> types_list,
     result |-> [status |-> status, value |-> value],
     read_at |-> et_time', wrote_at |-> et[p].wrote_at]

\* The call of p is suspended in `await r.set` with its list ready.
Suspended(p, op, name, types_list, value) ==
    [pc |-> "set", op |-> op, name |-> name, body |-> NoBody,
     read |-> to_list(et_store), types_list |-> types_list,
     result |-> [status |-> "pending", value |-> value],
     read_at |-> et_time', wrote_at |-> et[p].wrote_at]

\* r.set adding to the current value of the key what p appended to its copy.
redis_set_merging(p) ==
    [exists |-> TRUE,
     value |-> to_list(et_store) \o
               SelectSeq(et[p].types_list, LAMBDA t : ~HasName(to_list(et_store), t.name))]

\* r.set(ENTITY_TYPES_KEY, json.dumps(types_list)) writing over the key whatever it holds.
redis_set(p) == [exists |-> TRUE, value |-> et[p].types_list]

\* The r.set of the call of p: the reply, or the exception of a lost connection.
Set(p, ok) ==
    /\ et_time' = et_time + 1
    /\ IF ok
       THEN /\ et_store' = redis_set(p)
            /\ et' = [et EXCEPT ![p].pc = "done", ![p].result.status = "ok",
                                ![p].wrote_at = et_time']
       ELSE /\ et' = [et EXCEPT ![p].pc = "done", ![p].result.status = "error"]
            /\ UNCHANGED et_store
    /\ UNCHANGED <<et_requests, ds_vars, fetch_vars, rename_vars, delete_vars, requests, key_vars, auth_vars, crud_vars, proxy_vars>>

\* EntityTypeService.create up to `await r.set`
et_create(p, name, description, fields, ok) ==
    /\ Free(p)
    /\ et_requests' = et_requests + 1
    /\ et_time' = et_time + 1
    /\ LET types_list == to_list(et_store)
           entity_type == EntityType(name, description, fields, "api", NoTime, NoTime, et_time')
       IN et' = [et EXCEPT ![p] =
                    IF ~ok THEN Returned(p, "create", name, "error", <<>>, <<>>)
                    ELSE IF HasName(types_list, name)
                    THEN Returned(p, "create", name, "exists", <<>>, types_list)
                    ELSE Suspended(p, "create", name, Append(types_list, entity_type),
                                   <<entity_type>>)]
    /\ UNCHANGED <<et_store, ds_vars, fetch_vars, rename_vars, delete_vars, requests, key_vars, auth_vars, crud_vars, proxy_vars>>

et_create_set(p, ok) ==
    /\ et[p].pc = "set" /\ et[p].op = "create"
    /\ Set(p, ok)

\* update_entity_type: the arguments the route hands to the service, a key
\* left out standing for None (`... if update.fields else None`)
update_arguments(update) ==
    [k \in {k \in DOMAIN update : k = "description" \/ update[k] # <<>>} |-> update[k]]

\* update_entity_type and EntityTypeService.update up to `await r.set`
et_update(p, name, update, ok) ==
    /\ Free(p)
    /\ et_requests' = et_requests + 1
    /\ et_time' = et_time + 1
    /\ LET types_list == to_list(et_store)
           arguments == update_arguments(update)
           i == FirstNamed(types_list, name)
           updated == [types_list[i] EXCEPT
                          !.description = Get(arguments, "description", @),
                          !.fields = Get(arguments, "fields", @),
                          !.modified_at = et_time',
                          !.source = "api"]
       IN et' = [et EXCEPT ![p] =
                    [(IF ~ok THEN Returned(p, "update", name, "error", <<>>, <<>>)
                      ELSE IF ~et_store.exists \/ ~HasName(types_list, name)
                      THEN Returned(p, "update", name, "not found", <<>>, types_list)
                      ELSE Suspended(p, "update", name,
                                     [types_list EXCEPT ![i] = updated], <<updated>>))
                     EXCEPT !.body = update]]
    /\ UNCHANGED <<et_store, ds_vars, fetch_vars, rename_vars, delete_vars, requests, key_vars, auth_vars, crud_vars, proxy_vars>>

et_update_set(p, ok) ==
    /\ et[p].pc = "set" /\ et[p].op = "update"
    /\ Set(p, ok)

\* EntityTypeService.delete up to `await r.set`
et_delete(p, name, ok) ==
    /\ Free(p)
    /\ et_requests' = et_requests + 1
    /\ et_time' = et_time + 1
    /\ LET types_list == Filtered(to_list(et_store), name)
       IN et' = [et EXCEPT ![p] =
                    IF ~ok THEN Returned(p, "delete", name, "error", <<>>, <<>>)
                    ELSE IF ~et_store.exists \/ Len(types_list) = Len(to_list(et_store))
                    THEN Returned(p, "delete", name, "not found", <<>>, types_list)
                    ELSE Suspended(p, "delete", name, types_list, <<>>)]
    /\ UNCHANGED <<et_store, ds_vars, fetch_vars, rename_vars, delete_vars, requests, key_vars, auth_vars, crud_vars, proxy_vars>>

et_delete_set(p, ok) ==
    /\ et[p].pc = "set" /\ et[p].op = "delete"
    /\ Set(p, ok)

\* EntityTypeService.reset_to_defaults: the list is built from the argument
\* alone, the only await that suspends is r.set.
reset_to_defaults(p, default_types) ==
    /\ Free(p)
    /\ et_requests' = et_requests + 1
    /\ et_time' = et_time + 1
    /\ LET types_list == [i \in 1..Len(default_types) |->
                            EntityType(default_types[i].name,
                                       Get(default_types[i], "description", ""),
                                       Get(default_types[i], "fields", <<>>),
                                       "config", NoTime, NoTime, et_time')]
       IN et' = [et EXCEPT ![p] = Suspended(p, "reset", None, types_list, types_list)]
    /\ UNCHANGED <<et_store, ds_vars, fetch_vars, rename_vars, delete_vars, requests, key_vars, auth_vars, crud_vars, proxy_vars>>

reset_set(p, ok) ==
    /\ et[p].pc = "set" /\ et[p].op = "reset"
    /\ Set(p, ok)

\* EntityType.from_dict followed by to_dict
from_dict(d, now) ==
    EntityType(d.name, Get(d, "description", ""), Get(d, "fields", <<>>),
               Get(d, "source", "api"), Get(d, "created_at", NoTime),
               Get(d, "modified_at", NoTime), now)

\* What EntityTypeService.get_all makes of the value of the key.
get_all(store, now) ==
    [i \in 1..Len(to_list(store)) |-> from_dict(to_list(store)[i], now)]

\* What EntityTypeService.get_by_name makes of it: the first of that name, or None.
get_by_name(store, name, now) ==
    LET types_data == to_list(store)
        found == {i \in 1..Len(types_data) : types_data[i].name = name}
    IN IF found # {}
       THEN <<from_dict(types_data[CHOOSE i \in found : \A j \in found : i <= j], now)>>
       ELSE <<>>

\* EntityTypeService.get_all: one r.get; any exception gives the empty list
et_get_all(p, ok) ==
    /\ Free(p)
    /\ et_requests' = et_requests + 1
    /\ et_time' = et_time + 1
    /\ et' = [et EXCEPT ![p] =
                 IF ok THEN Returned(p, "get_all", None, "ok", get_all(et_store, et_time'),
                                     to_list(et_store))
                 ELSE Returned(p, "get_all", None, "ok", <<>>, <<>>)]
    /\ UNCHANGED <<et_store, ds_vars, fetch_vars, rename_vars, delete_vars, requests, key_vars, auth_vars, crud_vars, proxy_vars>>

\* EntityTypeService.get_by_name: one r.get; any exception gives None
et_get_by_name(p, name, ok) ==
    /\ Free(p)
    /\ et_requests' = et_requests + 1
    /\ et_time' = et_time + 1
    /\ et' = [et EXCEPT ![p] =
                 IF ok /\ get_by_name(et_store, name, et_time') # <<>>
                 THEN Returned(p, "get_by_name", name, "ok",
                               get_by_name(et_store, name, et_time'), to_list(et_store))
                 ELSE Returned(p, "get_by_name", name, "not found", <<>>, <<>>)]
    /\ UNCHANGED <<et_store, ds_vars, fetch_vars, rename_vars, delete_vars, requests, key_vars, auth_vars, crud_vars, proxy_vars>>

NextEntityTypes ==
    \/ \E p \in Procs, name \in TypeNames, ok \in BOOLEAN :
          et_create(p, name, "d1", <<"f0">>, ok)
    \/ \E p \in Procs, ok \in BOOLEAN : et_get_all(p, ok)
    \/ \E p \in Procs, name \in TypeNames, ok \in BOOLEAN : et_get_by_name(p, name, ok)
    \/ \E p \in Procs, ok \in BOOLEAN : et_create_set(p, ok)
    \/ \E p \in Procs, name \in TypeNames, update \in Updates, ok \in BOOLEAN :
          et_update(p, name, update, ok)
    \/ \E p \in Procs, ok \in BOOLEAN : et_update_set(p, ok)
    \/ \E p \in Procs, name \in TypeNames, ok \in BOOLEAN : et_delete(p, name, ok)
    \/ \E p \in Procs, ok \in BOOLEAN : et_delete_set(p, ok)
    \/ \E p \in Procs : reset_to_defaults(p, <<>>)
    \/ \E p \in Procs, ok \in BOOLEAN : reset_set(p, ok)

SpecEntityTypes == Init /\ [][NextEntityTypes]_vars

(***************************************************************************)
(* Properties of the entity-type registry                                  *)
(***************************************************************************)
Succeeded(p, op) == et[p].pc = "done" /\ et[p].op = op /\ et[p].result.status = "ok"

LastWriter(p) ==
    /\ et[p].wrote_at # NoTime
    /\ \A q \in Procs : et[q].wrote_at <= et[p].wrote_at

\* C9: the write of an EntityTypeService mutation is unconditional: once a
\* call has returned successfully and nobody wrote after it, the stored
\* collection is exactly that call's own list (what it read, with its own
\* change), whatever other calls wrote between its read and its write; two
\* interleaved creates can therefore both succeed and leave only the last
\* writer's type stored.
C9_LastWriterWins ==
    \A p \in Procs :
        (/\ et[p].pc = "done" /\ et[p].result.status = "ok"
         /\ et[p].read_at < et[p].wrote_at
         /\ LastWriter(p)) =>
            et_store = [exists |-> TRUE, value |-> et[p].types_list]

Finished(p, op, status) ==
    et[p].pc = "done" /\ et[p].op = op /\ et[p].result.status = status

\* the positions of the types called name, letter for letter
Named(types_list, name) == {i \in 1..Len(types_list) : types_list[i].name = name}

\* the call of p did not write the key
WroteNothing(p) == et[p].wrote_at < et[p].read_at

Updating(p) ==
    /\ et[p].op = "update"
    /\ et[p].pc \in {"set", "done"}
    /\ et[p].result.status \in {"pending", "ok"}

\* C12: an update changes exactly the fields its request supplies, an empty
\* fields list included, always sets modified_at and source "api", leaves
\* name, created_at and every other type as they were read, and for an absent
\* name reports not-found and writes nothing.
C12_UpdateFrame ==
    \A p \in Procs :
        /\ Updating(p) =>
              LET i == FirstNamed(et[p].read, et[p].name)
                  old == et[p].read[i]
                  new == et[p].types_list[i]
                  body == et[p].body
              IN /\ new.description = IF "description" \in DOMAIN body
                                      THEN body.description ELSE old.description
                 /\ new.fields = IF "fields" \in DOMAIN body
                                 THEN body.fields ELSE old.fields
                 /\ new.modified_at = et[p].read_at /\ new.modified_at # NoTime
                 /\ new.source = "api"
                 /\ new.name = old.name /\ new.created_at = old.created_at
                 /\ Len(et[p].types_list) = Len(et[p].read)
                 /\ \A j \in 1..Len(et[p].read) :
                       j # i => et[p].types_list[j] = et[p].read[j]
                 /\ et[p].result.value = <<new>>
        /\ Finished(p, "update", "not found") =>
              /\ Named(et[p].read, et[p].name) = {}
              /\ WroteNothing(p)

\* Two creates with distinct names both returned their type; q read before
\* p wrote and wrote after it, and the type p created is not stored.
C9_Witness ==
    \E p, q \in Procs :
        /\ p # q
        /\ Succeeded(p, "create") /\ Succeeded(q, "create")
        /\ et[p].name # et[q].name
        /\ et[q].read_at < et[p].wrote_at /\ et[p].wrote_at < et[q].wrote_at
        /\ ~HasName(to_list(et_store), et[p].name)
        /\ HasName(to_list(et_store), et[q].name)

(***************************************************************************)
(* services/api_key_service.py                                             *)
(*                                                                         *)
(* The functions are synchronous and are called from `async def` routes on *)
(* the event loop (api/api_keys_api.py, api/mcp_proxy.py): nothing else    *)
(* runs between a call's _load_api_keys and its _save_api_keys, so each    *)
(* call is one action.  API keys are tuples of one-character strings.      *)
(***************************************************************************)
PrefixLength == 12
KeyNames == {"ci"}

\* "gk_" followed by a token: nine times c, then d
Gk(c, d) == <<"g", "k", "_">> \o [i \in 1..9 |-> c] \o <<d>>

\* what secrets.token_urlsafe may give; the first two share their first 12 characters
GeneratedKeys == {Gk("a", "1"), Gk("a", "2"), Gk("b", "1")}
PresentedKeys == GeneratedKeys \cup {<<>>, <<"x">> \o Tail(Gk("a", "1")),
                                     Append(Gk("a", "1"), "x")}
KeyPrefixes == {Take(key, PrefixLength) : key \in GeneratedKeys}

\* _load_api_keys handing out the dict an earlier call had loaded.
load_api_keys_stale == key_data

load_api_keys == IF key_file.exists THEN [keys |-> key_file.keys] ELSE [keys |-> <<>>]

save_api_keys(d) == [exists |-> TRUE, keys |-> d.keys]

\* _hash_key looking at the displayed prefix only.
hash_key_of_prefix(key) == <<"sha256", Take(key, PrefixLength)>>

\* sha256 has no collisions among the keys at hand
hash_key(key) == <<"sha256", key>>

KeyCalled ==
    /\ key_requests < MaxKeyRequests
    /\ key_requests' = key_requests + 1

create_api_key(name, key) ==
    /\ KeyCalled
    /\ key \notin key_log.generated
    /\ LET d == load_api_keys
           key_entry == [name |-> name, key_hash |-> hash_key(key),
                         key_prefix |-> Take(key, PrefixLength), full_key |-> key,
                         created_at |-> key_requests', last_used |-> NoTime]
       IN /\ key_data' = d
          /\ key_file' = save_api_keys([keys |-> Append(d.keys, key_entry)])
          /\ key_result' = [op |-> "create", ok |-> TRUE,
                            value |-> <<[name |-> name, key |-> key,
                                         key_prefix |-> Take(key, PrefixLength),
                                         created_at |-> key_entry.created_at]>>]
    /\ key_log' = [generated |-> key_log.generated \cup {key},
                   presented |-> key_log.presented,
                   expected |-> key_log.expected \cup
                                   {[full_key |-> key, last_used |-> NoTime]}]
    /\ UNCHANGED <<ds_vars, fetch_vars, rename_vars, delete_vars, requests, et_vars, auth_vars, crud_vars, proxy_vars>>

list_api_keys ==
    /\ LET d == load_api_keys
       IN /\ key_data' = d
          /\ key_result' = [op |-> "list", ok |-> TRUE,
                            value |-> [i \in 1..Len(d.keys) |->
                                         [name |-> d.keys[i].name,
                                          key_prefix |-> d.keys[i].key_prefix,
                                          full_key |-> Get(d.keys[i], "full_key", <<>>),
                                          created_at |-> d.keys[i].created_at,
                                          last_used |-> Get(d.keys[i], "last_used", NoTime)]]]
    /\ UNCHANGED <<key_file, key_log, key_requests>>
    /\ UNCHANGED <<ds_vars, fetch_vars, rename_vars, delete_vars, requests, et_vars, auth_vars, crud_vars, proxy_vars>>

delete_api_key(key_prefix) ==
    /\ KeyCalled
    /\ LET d == load_api_keys
           kept == SelectSeq(d.keys, LAMBDA k : k.key_prefix # key_prefix)
       IN /\ key_data' = d
          /\ IF Len(kept) < Len(d.keys)
             THEN /\ key_file' = save_api_keys([keys |-> kept])
                  /\ key_result' = [op |-> "delete", ok |-> TRUE, value |-> <<>>]
             ELSE /\ key_result' = [op |-> "delete", ok |-> FALSE, value |-> <<>>]
                  /\ UNCHANGED key_file
    /\ key_log' = [key_log EXCEPT !.expected =
                      {x \in @ : Take(x.full_key, PrefixLength) # key_prefix}]
    /\ UNCHANGED <<ds_vars, fetch_vars, rename_vars, delete_vars, requests, et_vars, auth_vars, crud_vars, proxy_vars>>

validate_api_key(key) ==
    /\ KeyCalled
    /\ IF key = <<>> \/ ~IsPrefix(<<"g", "k", "_">>, key)
       THEN /\ key_result' = [op |-> "validate", ok |-> FALSE, value |-> <<>>]
            /\ UNCHANGED <<key_file, key_data>>
       ELSE LET d == load_api_keys
                key_hash == hash_key(key)
                found == {i \in 1..Len(d.keys) : d.keys[i].key_hash = key_hash}
            IN /\ key_data' = d
               /\ IF found # {}
                  THEN LET i == CHOOSE i \in found : \A j \in found : i <= j
                       IN /\ key_file' = save_api_keys(
                                [keys |-> [d.keys EXCEPT ![i].last_used = key_requests']])
                          /\ key_result' = [op |-> "validate", ok |-> TRUE, value |-> <<>>]
                  ELSE /\ key_result' = [op |-> "validate", ok |-> FALSE, value |-> <<>>]
                       /\ UNCHANGED key_file
    /\ key_log' = [key_log EXCEPT !.presented = key, !.expected =
                      {IF x.full_key = key THEN [x EXCEPT !.last_used = key_requests'] ELSE x
                         : x \in @}]
    /\ UNCHANGED <<ds_vars, fetch_vars, rename_vars, delete_vars, requests, et_vars, auth_vars, crud_vars>>

\* validate_api_key as the proxy calls it, the rest of the proxy left aside
present_api_key(key) ==
    /\ validate_api_key(key)
    /\ UNCHANGED proxy_vars

NextApiKeys ==
    \/ \E name \in KeyNames, key \in GeneratedKeys : create_api_key(name, key)
    \/ list_api_keys
    \/ \E key_prefix \in KeyPrefixes : delete_api_key(key_prefix)
    \/ \E key \in PresentedKeys : present_api_key(key)

\* Every call that has arrived runs to its return.
SpecApiKeys == Init /\ [][NextApiKeys]_vars /\ WF_vars(NextApiKeys)

(***************************************************************************)
(* Properties of the API-key store                                         *)
(***************************************************************************)
StoredKeys == {[full_key |-> k.full_key, last_used |-> k.last_used] : k \in Elems(key_file.keys)}

\* A created key is missing, a deleted key is back, or a validation's
\* last_used is not the stored one.
LostKeyUpdate ==
    \/ \E x \in key_log.expected : x \notin StoredKeys
    \/ \E x \in StoredKeys : x \notin key_log.expected

C13_ValidateExact ==
    key_result.op = "validate" =>
        (key_result.ok <=> \E x \in key_log.expected : x.full_key = key_log.presented)

\* A secret that validated after its create is refused after delete(prefix)
\* returned true.
C13_Witness ==
    /\ key_result.op = "validate" /\ ~key_result.ok
    /\ key_log.presented \in key_log.generated
    /\ key_file.exists /\ key_file.keys = <<>>

\* C14: no two stored keys have the same key_prefix.
C14_PrefixUnique ==
    \A i, j \in 1..Len(key_file.keys) :
        i # j => key_file.keys[i].key_prefix # key_file.keys[j].key_prefix

(***************************************************************************)
(* auth/router.py, auth/dependencies.py, auth/jwt.py,                      *)
(* services/credentials_service.py                                         *)
(*                                                                         *)
(* The setup, login and logout handlers have no await: each is one action. *)
(* A JWT is the record of what it was signed with and its claims; a cookie *)
(* is the empty tuple or the tuple of one JWT.  A bcrypt hash is the tuple *)
(* of its salt and the password it was made from.                          *)
(***************************************************************************)
admin_username == "admin"
jwt_expire_minutes == 2
Usernames == {"admin", "eve"}
Passwords == {"password1", "password2"}
Salts == {"salt1", "salt2"}
SecretKeys == {"secret_key", "another key"}

hashpw(password, salt) == <<"bcrypt", salt, password>>
checkpw(password, password_hash) == password_hash = hashpw(password, password_hash[2])

\* read_credentials: the content, the defaults when there is no file
read_credentials(file) == IF file.exists THEN file.content ELSE DEFAULT_CREDENTIALS

\* the file after read_credentials, which writes the defaults when there is none
ReadThrough(file) == IF file.exists THEN file ELSE [exists |-> TRUE, content |-> DEFAULT_CREDENTIALS]

write_credentials(creds) == [exists |-> TRUE, content |-> creds]

\* is_initialized answering that no setup has been done, whatever the file says.
is_initialized_unset(file) == FALSE

is_initialized(file) == read_credentials(file).admin.initialized

\* the file after set_admin_password
set_admin_password(file, password, salt) ==
    write_credentials([read_credentials(file) EXCEPT
                          !.admin.password_hash = hashpw(password, salt),
                          !.admin.initialized = TRUE])

verify_admin_password(file, password) ==
    LET password_hash == read_credentials(file).admin.password_hash
    IN IF password_hash = NoHash THEN FALSE ELSE checkpw(password, password_hash)

create_access_token(sub, now) ==
    [signed_with |-> "secret_key", sub |-> sub, exp |-> now + jwt_expire_minutes]

\* decode_token: the payload in a tuple, the empty tuple for None
decode_token_unverified(token, now) ==
    IF now <= token.exp THEN <<[sub |-> token.sub, exp |-> token.exp]>> ELSE <<>>

decode_token(token, now) ==
    IF token.signed_with = "secret_key" /\ now <= token.exp
    THEN <<[sub |-> token.sub, exp |-> token.exp]>>
    ELSE <<>>

Tokens == [signed_with : SecretKeys, sub : {"admin", None}, exp : {1, MaxAuthRequests + jwt_expire_minutes}]
Cookies == {NoCookie} \cup {<<token>> : token \in Tokens}

\* get_current_user: the status of the dependency
get_current_user(access_token, now) ==
    IF access_token = NoCookie THEN 401
    ELSE IF decode_token(access_token[1], now) = <<>> THEN 401
    ELSE IF decode_token(access_token[1], now)[1].sub = None THEN 401
    ELSE 200

AuthCalled ==
    /\ auth_requests < MaxAuthRequests
    /\ auth_requests' = auth_requests + 1

Answer(route, status, set_cookie, effects, access_token, authorization) ==
    [route |-> route, status |-> status, set_cookie |-> set_cookie, effects |-> effects,
     request |-> [access_token |-> access_token, authorization |-> authorization]]

\* What a handler that reads the credentials touches: read_credentials writes
\* the default file when there is none
Touched(file, more) ==
    {"read_credentials"} \cup (IF file.exists THEN {} ELSE {"write_credentials"}) \cup more

\* GET /api/health
health_check(access_token, authorization) ==
    /\ AuthCalled
    /\ auth_result' = Answer("/api/health", 200, NoCookie, {}, access_token, authorization)
    /\ UNCHANGED <<credentials, auth_log>>
    /\ UNCHANGED <<ds_vars, fetch_vars, rename_vars, delete_vars, requests, et_vars, key_vars, proxy_vars, crud_vars>>

\* GET /api/auth/setup-status
get_setup_status(access_token, authorization) ==
    /\ AuthCalled
    /\ credentials' = ReadThrough(credentials)
    /\ auth_result' = Answer("/api/auth/setup-status", 200, NoCookie, Touched(credentials, {}),
                             access_token, authorization)
    /\ UNCHANGED auth_log
    /\ UNCHANGED <<ds_vars, fetch_vars, rename_vars, delete_vars, requests, et_vars, key_vars, proxy_vars, crud_vars>>

\* POST /api/auth/setup
initial_setup(password, password_confirm, salt, access_token, authorization) ==
    /\ AuthCalled
    /\ IF is_initialized(credentials) \/ password # password_confirm
       THEN /\ credentials' = ReadThrough(credentials)
            /\ auth_result' = Answer("/api/auth/setup", 400, NoCookie, Touched(credentials, {}),
                                     access_token, authorization)
            /\ UNCHANGED auth_log
       ELSE /\ credentials' = set_admin_password(ReadThrough(credentials), password, salt)
            /\ auth_result' = Answer("/api/auth/setup", 200,
                                     <<create_access_token(admin_username, auth_requests')>>,
                                     Touched(credentials, {"write_credentials"}),
                                     access_token, authorization)
            /\ auth_log' = [setups |-> auth_log.setups + 1,
                            first_hash |-> IF auth_log.setups = 0
                                           THEN hashpw(password, salt)
                                           ELSE auth_log.first_hash]
    /\ UNCHANGED <<ds_vars, fetch_vars, rename_vars, delete_vars, requests, et_vars, key_vars, proxy_vars, crud_vars>>

\* POST /api/auth/login
login(username, password, access_token, authorization) ==
    /\ AuthCalled
    /\ credentials' = ReadThrough(credentials)
    /\ auth_result' =
          IF ~is_initialized(credentials)
          THEN Answer("/api/auth/login", 400, NoCookie, Touched(credentials, {}),
                      access_token, authorization)
          ELSE IF username # admin_username \/ ~verify_admin_password(credentials, password)
          THEN Answer("/api/auth/login", 401, NoCookie, Touched(credentials, {}),
                      access_token, authorization)
          ELSE Answer("/api/auth/login", 200,
                      <<create_access_token(username, auth_requests')>>,
                      Touched(credentials, {}), access_token, authorization)
    /\ UNCHANGED auth_log
    /\ UNCHANGED <<ds_vars, fetch_vars, rename_vars, delete_vars, requests, et_vars, key_vars, proxy_vars, crud_vars>>

\* POST and GET /api/auth/logout
logout(access_token, authorization) ==
    /\ AuthCalled
    /\ auth_result' = Answer("/api/auth/logout", 200, NoCookie, {"delete_cookie"},
                             access_token, authorization)
    /\ UNCHANGED <<credentials, auth_log>>
    /\ UNCHANGED <<ds_vars, fetch_vars, rename_vars, delete_vars, requests, et_vars, key_vars, proxy_vars, crud_vars>>

\* "Bearer " followed by the key
Bearer(key) == <<"B", "e", "a", "r", "e", "r", " ">> \o key

\* Routes declared with the CurrentUser dependency, one of each router
GatedRoutes == {"/api/auth/me", "/api/dashboard/status", "/api/config", "/api/entity-types",
                "/api/query", "/api/graph/data", "/api/api-keys", "/api/docker"}

\* A route with the CurrentUser dependency: the handler runs only past get_current_user
api_route(route, access_token, authorization) ==
    /\ AuthCalled
    /\ auth_result' =
          IF get_current_user(access_token, auth_requests') = 200
          THEN Answer(route, 200, NoCookie, {"handler"}, access_token, authorization)
          ELSE Answer(route, 401, NoCookie, {}, access_token, authorization)
    /\ UNCHANGED <<credentials, auth_log>>
    /\ UNCHANGED <<ds_vars, fetch_vars, rename_vars, delete_vars, requests, et_vars, key_vars, proxy_vars, crud_vars>>

\* GET /{path}: a file of the frontend build
serve_spa(access_token, authorization) ==
    /\ AuthCalled
    /\ auth_result' = Answer("/{path}", 200, NoCookie, {"read_file"}, access_token, authorization)
    /\ UNCHANGED <<credentials, auth_log>>
    /\ UNCHANGED <<ds_vars, fetch_vars, rename_vars, delete_vars, requests, et_vars, key_vars, proxy_vars, crud_vars>>

AuthorizationHeaders == {NoHeader, Bearer(Gk("a", "1"))}

NextAuth ==
    \/ \E c \in Cookies, a \in AuthorizationHeaders : health_check(c, a)
    \/ \E c \in Cookies, a \in AuthorizationHeaders : get_setup_status(c, a)
    \/ \E password, password_confirm \in Passwords, salt \in Salts,
          c \in Cookies, a \in AuthorizationHeaders :
          initial_setup(password, password_confirm, salt, c, a)
    \/ \E username \in Usernames, password \in Passwords,
          c \in Cookies, a \in AuthorizationHeaders : login(username, password, c, a)
    \/ \E c \in Cookies, a \in AuthorizationHeaders : logout(c, a)
    \/ \E route \in GatedRoutes, c \in Cookies, a \in AuthorizationHeaders : api_route(route, c, a)
    \/ \E c \in Cookies, a \in AuthorizationHeaders : serve_spa(c, a)
    \/ create_api_key("ci", Gk("a", "1"))

SpecAuth == Init /\ [][NextAuth]_vars

(***************************************************************************)
(* Properties of the admin credential and of the authentication gate       *)
(***************************************************************************)
Initialized == credentials.exists /\ credentials.content.admin.initialized

\* C15: the admin credential only moves from uninitialized to initialized: at
\* most one setup ever succeeds, from then on the credential stays initialized
\* with the hash that setup stored, a setup that is rejected after that does
\* not write the credentials, and a login is rejected while no setup has succeeded.
C15_SetupOnce ==
    /\ auth_log.setups <= 1
    /\ auth_log.setups = 1 <=> Initialized
    /\ Initialized => credentials.content.admin.password_hash = auth_log.first_hash
    /\ ~Initialized => credentials.content.admin.password_hash = NoHash
    /\ (auth_result.route = "/api/auth/setup" /\ auth_result.status # 200 /\ Initialized) =>
          "write_credentials" \notin auth_result.effects
    /\ (auth_result.route = "/api/auth/login" /\ ~Initialized) => auth_result.status = 400

\* A second setup, with another password, has been rejected after the first
\* one succeeded.
C15_Witness ==
    /\ auth_log.setups = 1 /\ Initialized
    /\ auth_result.route = "/api/auth/setup" /\ auth_result.status = 400
    /\ auth_result.effects = {"read_credentials"}
    /\ auth_requests >= 2

\* The request of the last answer carried a correctly signed, unexpired
\* session cookie with a subject.
ValidSession ==
    LET c == auth_result.request.access_token
    IN /\ c # NoCookie
       /\ c[1].signed_with = "secret_key"
       /\ auth_requests <= c[1].exp
       /\ c[1].sub # None

\* The request of the last answer carried a bearer token that is a stored key.
ValidBearer ==
    \E k \in Elems(key_file.keys) : auth_result.request.authorization = Bearer(k.full_key)

\* C16 as stated: every route except health and setup-status answers 401 and
\* performs no read or mutation when the request carries neither a valid
\* session cookie nor a valid bearer API key.
C16_AllRoutesGated ==
    (/\ auth_result.route \notin {"none", "/api/health", "/api/auth/setup-status"}
     /\ ~ValidSession
     /\ ~ValidBearer) =>
        (auth_result.status = 401 /\ auth_result.effects = {})

\* C16: every route declared with the session dependency answers 401 and runs
\* no handler code when the request carries no valid session cookie, whatever
\* bearer token it carries; with a valid session cookie the handler runs.
C16_SessionRoutesGated ==
    auth_result.route \in GatedRoutes =>
        IF ValidSession
        THEN auth_result.status = 200 /\ auth_result.effects = {"handler"}
        ELSE auth_result.status = 401 /\ auth_result.effects = {}

\* A route with the session dependency has answered 401 to a request whose
\* cookie is signed with another secret and whose bearer token is a stored key.
C16_Witness ==
    /\ auth_result.route = "/api/graph/data"
    /\ auth_result.request.access_token # NoCookie
    /\ auth_result.request.access_token[1].signed_with # "secret_key"
    /\ ValidBearer
    /\ auth_result.status = 401

(***************************************************************************)
(* api/mcp_proxy.py: the reverse proxy to the MCP server                   *)
(***************************************************************************)
\* A session cookie that get_current_user accepts
SessionCookie == <<create_access_token(admin_username, 0)>>

\* The headers of the requests sent to /mcp/{path}, by lower-case name
ProxyRequests ==
    {[host |-> "ui"],
     [host |-> "ui", cookie |-> SessionCookie],
     [host |-> "ui", authorization |-> Bearer(Gk("a", "1"))] @@
        ("content-length" :> "2") @@ ("content-type" :> "text/plain"),
     [host |-> "ui", authorization |-> Bearer(Gk("a", "2")), cookie |-> SessionCookie],
     [host |-> "ui", authorization |-> Bearer(Append(Gk("a", "1"), "x"))],
     [host |-> "ui", authorization |-> Bearer(<<>>), cookie |-> SessionCookie],
     [host |-> "ui", authorization |-> <<"B", "a", "s", "i", "c", " ">> \o Gk("a", "1")],
     [host |-> "ui", authorization |-> <<"b", "e", "a", "r", "e", "r", " ">> \o Gk("a", "1")]}

\* str.lower on the header names that occur
lower(key) ==
    CASE key = "Content-Type" -> "content-type"
      [] key = "Authorization" -> "authorization"
      [] key = "Host" -> "host"
      [] OTHER -> key

\* get_api_key_from_header: <<>> for None, <<key>> otherwise
get_api_key_from_header(request) ==
    LET auth_header == Get(request, "authorization", <<>>)
    IN IF IsPrefix(<<"B", "e", "a", "r", "e", "r", " ">>, auth_header)
       THEN <<SubSeq(auth_header, 8, Len(auth_header))>>
       ELSE <<>>

\* The headers handed on with every header of the request, none left out.
forward_headers_all(request) ==
    [key \in DOMAIN request \cup {"Content-Type"} |->
        IF key = "Content-Type" THEN Get(request, "content-type", "application/json")
        ELSE request[key]]

\* The headers handed to the MCP server
forward_headers(request) ==
    LET kept == {key \in DOMAIN request :
                    lower(key) \notin {"host", "authorization", "content-length"}}
    IN [key \in kept \cup {"Content-Type"} |->
           IF key = "Content-Type" THEN Get(request, "content-type", "application/json")
           ELSE request[key]]

\* proxy_mcp up to `await request.body()`: the key is taken from the header
\* and validated
proxy_mcp(request) ==
    /\ proxy.pc \in {"idle", "done"}
    /\ LET api_key == get_api_key_from_header(request)
           arrived == [pc |-> "done", request |-> request, status |-> 401,
                       live |-> {x.full_key : x \in key_log.expected},
                       sent_before |-> upstream.sent]
       IN IF api_key = <<>> \/ api_key[1] = <<>>
          THEN /\ proxy' = arrived
               /\ UNCHANGED <<key_vars, ds_vars, fetch_vars, rename_vars, delete_vars,
                              requests, et_vars, auth_vars, crud_vars>>
          ELSE /\ validate_api_key(api_key[1])
               /\ proxy' = IF key_result'.ok
                           THEN [arrived EXCEPT !.pc = "body", !.status = 0]
                           ELSE arrived
    /\ UNCHANGED upstream

\* proxy_mcp from the body to `await client.request`: the request is handed
\* to the MCP server with the headers kept
proxy_request ==
    /\ proxy.pc = "body"
    /\ proxy' = [proxy EXCEPT !.pc = "sent"]
    /\ upstream' = [sent |-> upstream.sent + 1, headers |-> forward_headers(proxy.request),
                    by |-> proxy]
    /\ UNCHANGED <<ds_vars, fetch_vars, rename_vars, delete_vars, requests, et_vars,
                   key_vars, auth_vars, crud_vars>>

ProxyOutcomes == {"response 200", "response 404", "TimeoutException", "ConnectError", "Exception"}

\* proxy_mcp from the answer of client.request to its own
proxy_response(outcome) ==
    /\ proxy.pc = "sent"
    /\ proxy' = [proxy EXCEPT !.pc = "done",
                              !.status = CASE outcome = "response 200" -> 200
                                           [] outcome = "response 404" -> 404
                                           [] outcome = "TimeoutException" -> 504
                                           [] OTHER -> 502]
    /\ UNCHANGED upstream
    /\ UNCHANGED <<ds_vars, fetch_vars, rename_vars, delete_vars, requests, et_vars,
                   key_vars, auth_vars, crud_vars>>

NextProxy ==
    \/ \E request \in ProxyRequests : proxy_mcp(request)
    \/ proxy_request
    \/ \E outcome \in ProxyOutcomes : proxy_response(outcome)
    \/ \E name \in KeyNames, key \in GeneratedKeys :
          create_api_key(name, key)
    \/ \E key_prefix \in KeyPrefixes : delete_api_key(key_prefix)

SpecProxy == Init /\ [][NextProxy]_vars

\* The request carried "Bearer " and a key that was created and not deleted
\* when the request arrived.
Authorized(p) ==
    /\ "authorization" \in DOMAIN p.request
    /\ \E key \in p.live : p.request.authorization = Bearer(key)

\* C17: the proxy hands a request to the MCP server only when its bearer token
\* was a live key at validation; a request without such a token, a session
\* cookie or not, is answered 401 and nothing is sent for it; the request sent
\* upstream has no Authorization header.
C17_ProxyGate ==
    /\ proxy.pc \in {"body", "sent"} => Authorized(proxy)
    /\ upstream.sent > 0 =>
          /\ Authorized(upstream.by)
          /\ \A key \in DOMAIN upstream.headers : lower(key) # "authorization"
    /\ proxy.pc = "done" =>
          IF Authorized(proxy)
          THEN upstream.sent = proxy.sent_before + 1 /\ upstream.by.request = proxy.request
          ELSE proxy.status = 401 /\ upstream.sent = proxy.sent_before

\* After a request with a live key was sent upstream, a request with a valid
\* session cookie and no bearer token has been answered 401.
C17_Witness ==
    /\ upstream.sent = 1
    /\ proxy.pc = "done" /\ proxy.status = 401
    /\ proxy.request = [host |-> "ui", cookie |-> SessionCookie]
    /\ get_current_user(proxy.request.cookie, auth_requests) = 200
    /\ proxy.live # {}

(***************************************************************************)
(* Failures of the entity-type operations                                  *)
(***************************************************************************)
\* The status the entity-type routes answer with for an outcome of the service:
\* a ValueError becomes 409, a missing type 404, any other exception is not
\* caught and leaves the route
route_status(status) ==
    CASE status = "ok" -> 200
      [] status = "exists" -> 409
      [] status = "not found" -> 404
      [] OTHER -> 500

\* C18 as stated: a failure of a Redis command during an entity-type operation
\* is caught and returned as a structured failure; no exception leaves the
\* operation and no route outside the authentication gate answers with a
\* server error.
C18_FailuresCaught ==
    \A p \in Procs :
        et[p].pc = "done" =>
            /\ et[p].result.status # "error"
            /\ route_status(et[p].result.status) # 500

(***************************************************************************)
(* api/graph_api.py, services/graphiti_service.py: single nodes and edges  *)
(***************************************************************************)
MaxCrudWrites == 3

\* dict results of the client
Success(value) == [success |-> TRUE, error |-> "", data |-> <<value>>]
Fail(error) == [success |-> FALSE, error |-> error, data |-> <<>>]

\* Attributes are sets of <<key, value>> pairs
Keys(attributes) == {kv[1] : kv \in attributes}

CreateNodeRequests ==
    {[name |-> "Ann", summary |-> "s0", attributes |-> {<<"role", "x">>}, group_id |-> Main],
     [name |-> "Bob", summary |-> "", attributes |-> {}, group_id |-> <<"a">>]}

CreateEdgeRequests ==
    {[source_uuid |-> "n1", target_uuid |-> "n1", relationship_type |-> "KNOWS",
      fact |-> "", group_id |-> Main],
     [source_uuid |-> "n1", target_uuid |-> "n2", relationship_type |-> "LIKES",
      fact |-> "likes a lot", group_id |-> <<"a">>]}

UpdateNodeRequests ==
    {NoBody,
     [name |-> "Al"],
     [summary |-> "s1"],
     [attributes |-> {<<"role", "y">>}],
     [name |-> "Al", summary |-> "s1", attributes |-> {<<"age", "1">>}]}

QueryGroupIds == {<<>>, <<"a">>}

AllNodeUuids(gs) ==
    UNION {{gs[g].nodes[i].n.uuid : i \in 1..Len(gs[g].nodes)} : g \in DOMAIN gs}
AllEdgeUuids(gs) ==
    UNION {{gs[g].edges[i].r.uuid : i \in 1..Len(gs[g].edges)} : g \in DOMAIN gs}

\* EntityNode.get_by_uuid on the driver of graph g: <<>> for NodeNotFoundError
node_get_by_uuid(gs, g, uuid) ==
    IF g \notin DOMAIN gs THEN <<>>
    ELSE LET found == {i \in 1..Len(gs[g].nodes) : gs[g].nodes[i].n.uuid = uuid}
         IN IF found = {} THEN <<>> ELSE <<gs[g].nodes[CHOOSE i \in found : TRUE]>>

\* EntityEdge.get_by_uuid on the driver of graph g: <<>> for EdgeNotFoundError
edge_get_by_uuid(gs, g, uuid) ==
    IF g \notin DOMAIN gs THEN <<>>
    ELSE LET found == {i \in 1..Len(gs[g].edges) : gs[g].edges[i].r.uuid = uuid}
         IN IF found = {} THEN <<>> ELSE <<gs[g].edges[CHOOSE i \in found : TRUE]>>

Asked(op, uuid, group_id, body, result) ==
    [op |-> op, uuid |-> uuid, group_id |-> group_id, body |-> body, result |-> result,
     before |-> graphs]

\* POST /graph/node/direct: create_entity_direct with the fields of the request
create_node_direct(request, u, ok) ==
    /\ writes < MaxCrudWrites
    /\ u \notin AllNodeUuids(graphs)
    /\ LET g == request.group_id
           rec == [n |-> [uuid |-> u, group_id |-> g, name |-> request.name,
                          summary |-> request.summary, attributes |-> request.attributes],
                   labels |-> <<"Entity">>]
           old == IF g \in DOMAIN graphs THEN graphs[g] ELSE EmptyGraph
       IN IF ok
          THEN /\ graphs' = [k \in DOMAIN graphs \cup {g} |->
                               IF k = g THEN [old EXCEPT !.nodes = Append(@, rec)]
                               ELSE graphs[k]]
               /\ crud' = Asked("create_node_direct", u, g, request,
                                Success([uuid |-> u, name |-> request.name]))
          ELSE /\ UNCHANGED graphs
               /\ crud' = Asked("create_node_direct", None, g, request, Fail("Unknown error"))
    /\ writes' = writes + 1
    /\ UNCHANGED <<fetch_vars, rename_vars, delete_vars, requests, et_vars, key_vars,
                   auth_vars, proxy_vars, fdb, qry>>

\* POST /graph/edge/direct: create_edge_direct with the fields of the request
create_edge_direct_route(request, e) ==
    /\ writes < MaxCrudWrites
    /\ e \notin AllEdgeUuids(graphs)
    /\ LET g == request.group_id
           rec == [source |-> request.source_uuid, target |-> request.target_uuid,
                   r |-> [uuid |-> e, group_id |-> g, name |-> request.relationship_type,
                          fact |-> IF request.fact = "" THEN "a relationship"
                                   ELSE request.fact]]
       IN IF /\ node_get_by_uuid(graphs, g, request.source_uuid) # <<>>
             /\ node_get_by_uuid(graphs, g, request.target_uuid) # <<>>
          THEN /\ graphs' = [graphs EXCEPT ![g].edges = Append(@, rec)]
               /\ crud' = Asked("create_edge_direct", e, g, request,
                                Success([uuid |-> e, name |-> request.relationship_type]))
          ELSE /\ UNCHANGED graphs
               /\ crud' = Asked("create_edge_direct", None, g, request, Fail("Unknown error"))
    /\ writes' = writes + 1
    /\ UNCHANGED <<fetch_vars, rename_vars, delete_vars, requests, et_vars, key_vars,
                   auth_vars, proxy_vars, fdb, qry>>

\* Graphiti.update_entity on a node: the values given replace the stored ones
update_entity(node, name, summary, attributes) ==
    [node EXCEPT !.n.name = IF name = <<>> THEN @ ELSE name[1],
                 !.n.summary = IF summary = <<>> THEN @ ELSE summary[1],
                 !.n.attributes = IF attributes = <<>> THEN @ ELSE attributes[1]]

\* update_entity_node: the graphs after it and the dict it returns; name, summary
\* and attributes are <<>> for None
update_entity_node(gs, uuid, name, summary, group_id, attributes) ==
    LET g == get_driver(group_id)
        entity == node_get_by_uuid(gs, g, uuid)
    IN IF entity = <<>>
       THEN [graphs |-> gs, result |-> Fail("Node not found")]
       ELSE LET merged_attributes ==
                    IF attributes = <<>> \/ attributes[1] = {} THEN <<>>
                    ELSE <<{kv \in entity[1].n.attributes : kv[1] \notin Keys(attributes[1])}
                            \cup {kv \in attributes[1] : kv[2] # None}>>
                updated == update_entity(entity[1], name, summary, merged_attributes)
            IN [graphs |-> [gs EXCEPT ![g].nodes =
                               [i \in 1..Len(@) |-> IF @[i].n.uuid = uuid THEN updated ELSE @[i]]],
                result |-> Success([uuid |-> uuid])]

\* PUT /graph/node/{uuid}: update_node
update_node(uuid, request, group_id, ok) ==
    /\ writes < MaxCrudWrites
    /\ writes' = writes + 1
    /\ LET name == IF "name" \in DOMAIN request THEN <<request.name>> ELSE <<>>
           summary == IF "summary" \in DOMAIN request THEN <<request.summary>> ELSE <<>>
           done == update_entity_node(graphs, uuid, name, summary, group_id, <<>>)
       IN IF ok
          THEN /\ graphs' = done.graphs
               /\ crud' = Asked("update_node", uuid, group_id, request, done.result)
          ELSE /\ UNCHANGED graphs
               /\ crud' = Asked("update_node", uuid, group_id, request, Fail("Unknown error"))
    /\ UNCHANGED <<fetch_vars, rename_vars, delete_vars, requests, et_vars, key_vars,
                   auth_vars, proxy_vars, fdb, qry>>

\* GET /graph/node/{uuid}: get_node_details
get_node_details(uuid, group_id, ok) ==
    /\ LET node == node_get_by_uuid(graphs, get_driver(group_id), uuid)
       IN crud' = Asked("get_node_details", uuid, group_id, NoBody,
                        IF ~ok THEN Fail("Unknown error")
                        ELSE IF node = <<>> THEN Fail("Node not found")
                        ELSE Success(node[1].n))
    /\ UNCHANGED <<ds_vars, fetch_vars, rename_vars, delete_vars, requests, et_vars,
                   key_vars, auth_vars, proxy_vars, fdb, qry>>

\* GET /graph/edge/{uuid}: get_edge_details. The name EntityEdge is bound
\* nowhere in the module, so looking it up raises NameError before any query,
\* which the handler of Exception turns into a failure dict.
get_edge_details(uuid, group_id) ==
    /\ crud' = Asked("get_edge_details", uuid, group_id, NoBody,
                     Fail("name 'EntityEdge' is not defined"))
    /\ UNCHANGED <<ds_vars, fetch_vars, rename_vars, delete_vars, requests, et_vars,
                   key_vars, auth_vars, proxy_vars, fdb, qry>>

NextCrud ==
    \/ \E request \in CreateNodeRequests, u \in NodeUuids, ok \in BOOLEAN :
          create_node_direct(request, u, ok)
    \/ \E request \in CreateEdgeRequests, e \in EdgeUuids : create_edge_direct_route(request, e)
    \/ \E uuid \in NodeUuids, request \in UpdateNodeRequests, group_id \in QueryGroupIds,
          ok \in BOOLEAN : update_node(uuid, request, group_id, ok)
    \/ \E uuid \in NodeUuids, group_id \in QueryGroupIds, ok \in BOOLEAN :
          get_node_details(uuid, group_id, ok)
    \/ \E uuid \in EdgeUuids, group_id \in QueryGroupIds : get_edge_details(uuid, group_id)

SpecCrud == Init /\ [][NextCrud]_vars

\* The node the latest request named, before it and now
NodeBefore == node_get_by_uuid(crud.before, get_driver(crud.group_id), crud.uuid)
NodeNow == node_get_by_uuid(graphs, get_driver(crud.group_id), crud.uuid)

\* C19 as stated: a node update that found its node has changed exactly the
\* fields the request supplied (name, summary, attributes) and no other; an
\* update of an unknown uuid returned success=false and changed nothing.
C19_UpdateExact ==
    crud.op = "update_node" =>
        IF NodeBefore = <<>>
        THEN ~crud.result.success /\ graphs = crud.before
        ELSE crud.result.success =>
                /\ NodeNow # <<>>
                /\ NodeNow[1].n.name = Get(crud.body, "name", NodeBefore[1].n.name)
                /\ NodeNow[1].n.summary = Get(crud.body, "summary", NodeBefore[1].n.summary)
                /\ IF "attributes" \in DOMAIN crud.body
                   THEN crud.body.attributes \subseteq NodeNow[1].n.attributes
                   ELSE NodeNow[1].n.attributes = NodeBefore[1].n.attributes

\* C20 as stated: get_edge_details of an edge that is in the graph returns
\* success=true with the edge's uuid, name, fact and endpoint uuids, and fails
\* only for a uuid with no edge.
C20_EdgeRoundTrip ==
    crud.op = "get_edge_details" =>
        LET edge == edge_get_by_uuid(graphs, get_driver(crud.group_id), crud.uuid)
        IN edge # <<>> =>
              /\ crud.result.success
              /\ crud.result.data = <<edge[1].r>>

(***************************************************************************)
(* GET /graph/data over entities and facts the MCP server has extracted    *)
(***************************************************************************)
MaxDataWrites == 3

DataGroups == {<<"a">>, <<"b">>}

\* Entity nodes as the extraction stores them: properties with embeddings and
\* free attributes, and the labels in the order labels(n) gives them
ExtractedNodes(g) ==
    {[n |-> [uuid |-> "n1", group_id |-> g, name |-> "Ann", summary |-> "s1",
             created_at |-> "t1", name_embedding |-> "vector", role |-> "x",
             face_embedding |-> "vector"],
      labels |-> <<"Entity", "Person">>],
     [n |-> [uuid |-> "n2", group_id |-> g, name |-> "Bob", name_embedding |-> "vector"],
      labels |-> <<"Entity">>],
     [n |-> [uuid |-> "n3", group_id |-> g, name |-> "Cy", embedding_model |-> "m1"],
      labels |-> <<"Place", "Entity">>]}

\* RELATES_TO edges as the extraction stores them, one of them without a name
ExtractedEdges(g) ==
    {[source |-> "n1", target |-> "n2",
      r |-> [uuid |-> "e1", group_id |-> g, name |-> "KNOWS", fact |-> "Ann knows Bob",
             fact_embedding |-> "vector"]],
     [source |-> "n1", target |-> "n1",
      r |-> [uuid |-> "e2", group_id |-> g, name |-> "", fact |-> "Ann is"]]}

\* POST /graph/knowledge, once the MCP server has processed it: an entity
\* node is in graph g
knowledge_node(g, rec) ==
    /\ writes < MaxDataWrites
    /\ rec.n.uuid \notin AllNodeUuids(graphs)
    /\ LET old == IF g \in DOMAIN graphs THEN graphs[g] ELSE EmptyGraph
       IN graphs' = [k \in DOMAIN graphs \cup {g} |->
                        IF k = g THEN [old EXCEPT !.nodes = Append(@, rec)] ELSE graphs[k]]
    /\ writes' = writes + 1
    /\ UNCHANGED <<fetch_vars, rename_vars, delete_vars, requests, et_vars, key_vars,
                   auth_vars, proxy_vars, crud_vars>>

\* POST /graph/knowledge, once the MCP server has processed it: a fact is in
\* graph g between two of its entities
knowledge_edge(g, rec) ==
    /\ writes < MaxDataWrites
    /\ rec.r.uuid \notin AllEdgeUuids(graphs)
    /\ rec.source \in NodeUuidsOf(g)
    /\ rec.target \in NodeUuidsOf(g)
    /\ graphs' = [graphs EXCEPT ![g].edges = Append(@, rec)]
    /\ writes' = writes + 1
    /\ UNCHANGED <<fetch_vars, rename_vars, delete_vars, requests, et_vars, key_vars,
                   auth_vars, proxy_vars, crud_vars>>

NextData ==
    \/ \E g \in DataGroups : \E rec \in ExtractedNodes(g) : knowledge_node(g, rec)
    \/ \E g \in DataGroups : \E rec \in ExtractedEdges(g) : knowledge_edge(g, rec)
    \/ \E limit \in Limits, enum_ok \in BOOLEAN : get_graph_data_all(limit, enum_ok)
    \/ \E g \in DataGroups, limit \in Limits : get_graph_data_single(g, limit)
    \/ \E ok \in BOOLEAN : query_nodes(ok)
    \/ \E ok \in BOOLEAN : query_edges(ok)

SpecData == Init /\ [][NextData]_vars

\* The records of the data source, of every graph
AllStoredNodes == UNION {Elems(graphs[g].nodes) : g \in DOMAIN graphs}
AllStoredEdges == UNION {Elems(graphs[g].edges) : g \in DOMAIN graphs}

Answered == fpc = "done" /\ response.success

\* C21 as stated: every edge of a GET /graph/data response has the uuids of
\* its stored source and target nodes as source and target, and as type its
\* stored name, or RELATES_TO when the name is empty.
C21_EdgeEndpoints ==
    Answered =>
        \A i \in 1..Len(response.edges) :
            \E rec \in AllStoredEdges :
                /\ rec.r.uuid = response.edges[i].uuid
                /\ response.edges[i].source = rec.source
                /\ response.edges[i].target = rec.target
                /\ response.edges[i].type =
                      IF rec.r.name # "" THEN rec.r.name ELSE "RELATES_TO"

\* The stored node a response node stands for
StoredNode(node) == CHOOSE rec \in AllStoredNodes : rec.n.uuid = node.id

\* The labels of a stored node other than the structural one
OtherLabels(rec) == Elems(rec.labels) \ {"Entity"}

\* C22 as stated: the type of every node of a GET /graph/data response is a
\* label of the stored node other than Entity when it has one, and Entity
\* only when it has no other label.
C22_NodeType ==
    Answered =>
        \A i \in 1..Len(response.nodes) :
            LET rec == StoredNode(response.nodes[i])
            IN IF OtherLabels(rec) # {}
               THEN response.nodes[i].type \in OtherLabels(rec)
               ELSE response.nodes[i].type = "Entity"

\* C23: no node of a GET /graph/data response has an attribute whose key ends
\* in _embedding, and every stored property that is neither a standard one
\* nor an embedding is among its attributes with the stored value.
C23_AttributesFiltered ==
    Answered =>
        \A i \in 1..Len(response.nodes) :
            LET rec == StoredNode(response.nodes[i])
                attributes == response.nodes[i].attributes
                embeddings == {"name_embedding", "summary_embedding", "face_embedding"}
                standard == {"uuid", "name", "summary", "group_id", "created_at", "labels"}
            IN /\ DOMAIN attributes \cap embeddings = {}
               /\ \A k \in DOMAIN rec.n \ (standard \cup embeddings) :
                     k \in DOMAIN attributes /\ attributes[k] = rec.n[k]

\* A response holds the node stored with an embedding among its free
\* properties, with its role and without the embedding, and the node whose
\* free property only starts with the word embedding, with that property.
C23_Witness ==
    /\ Answered
    /\ \E i, j \in 1..Len(response.nodes) :
          /\ "face_embedding" \in DOMAIN StoredNode(response.nodes[i]).n
          /\ response.nodes[i].attributes = [role |-> "x"]
          /\ response.nodes[j].attributes = [embedding_model |-> "m1"]

\* C24 as stated: the labels of a successful GET /graph/data response hold
\* Entity and, besides it, exactly the primary labels of the returned nodes,
\* each once.
C24_LabelsPresent ==
    Answered =>
        /\ "Entity" \in Elems(response.labels)
        /\ Elems(response.labels) \ {"Entity"} =
              UNION {OtherLabels(StoredNode(response.nodes[i])) : i \in 1..Len(response.nodes)}
        /\ Cardinality(Elems(response.labels)) = Len(response.labels)

\* C28 as stated: a GET /graph/data response for limit L holds at most L
\* nodes, with a group_id or without.
C28_LimitRespected == Answered => Len(response.nodes) <= freq.limit

(***************************************************************************)
(* services/falkordb_service.py: FalkorDBClient.get_graph_data             *)
(***************************************************************************)
\* FalkorDBClient.get_group_ids: every key but the telemetry ones and graphiti
falkordb_get_group_ids ==
    sorted({k \in DOMAIN graphs :
              /\ ~IsPrefix(<<"t", "e", "l", "e", "m", "e", "t", "r", "y", "{">>, k)
              /\ k # <<"g", "r", "a", "p", "h", "i", "t", "i">>})

\* the first label that is not Entity, Entity when there is none
primary_label(labels) ==
    LET others == SelectSeq(labels, LAMBDA l : l # "Entity")
    IN IF others = <<>> THEN "Entity" ELSE others[1]

\* _get_nodes_from_graph: MATCH (n:Entity) RETURN n LIMIT limit; [] when the
\* query raises
get_nodes_from_graph(graph_name, limit, ok) ==
    IF ~ok THEN <<>>
    ELSE LET rows == Take(StoredNodes(graph_name), limit)
         IN [i \in 1..Len(rows) |->
               [uuid |-> rows[i].n.uuid,
                name |-> Get(rows[i].n, "name", "Unknown"),
                summary |-> Get(rows[i].n, "summary", ""),
                labels |-> rows[i].labels,
                primaryLabel |-> primary_label(rows[i].labels),
                group_id |-> graph_name,
                created_at |-> Get(rows[i].n, "created_at", ""),
                attributes |-> [k \in DOMAIN rows[i].n \
                                   {"uuid", "name", "summary", "group_id", "created_at"}
                                |-> rows[i].n[k]]]]

\* the loop of get_all_nodes and get_all_edges over the groups from the i-th on
\* (from_graph is the sequence of what each group's query returns)
RECURSIVE extend_until(_, _, _, _)
extend_until(all, from_graph, i, limit) ==
    IF i > Len(from_graph) THEN all
    ELSE LET more == all \o from_graph[i]
         IN IF Len(more) >= limit THEN more
            ELSE extend_until(more, from_graph, i + 1, limit)

get_all_nodes(limit, group_id, ok) ==
    IF group_id # <<>> THEN get_nodes_from_graph(group_id, limit, ok)
    ELSE LET group_ids == IF ok THEN falkordb_get_group_ids ELSE <<>>
             each == limit \div (IF Len(group_ids) > 1 THEN Len(group_ids) ELSE 1)
             from_graph == [i \in 1..Len(group_ids) |->
                              get_nodes_from_graph(group_ids[i], each, ok)]
         IN Take(extend_until(<<>>, from_graph, 1, limit), limit)

\* _get_edges_from_graph: MATCH (s:Entity)-[r]->(t:Entity) ... LIMIT limit
get_edges_from_graph(graph_name, limit, ok) ==
    IF ~ok THEN <<>>
    ELSE LET rows == Take(StoredEdges(graph_name), limit)
         IN [i \in 1..Len(rows) |->
               [uuid |-> rows[i].r.uuid,
                source_node_uuid |-> rows[i].source,
                target_node_uuid |-> rows[i].target,
                type |-> "RELATES_TO",
                name |-> Get(rows[i].r, "name", None),
                fact |-> Get(rows[i].r, "fact", None)]]

get_all_edges(limit, group_id, ok) ==
    IF group_id # <<>> THEN get_edges_from_graph(group_id, limit, ok)
    ELSE LET group_ids == IF ok THEN falkordb_get_group_ids ELSE <<>>
             each == limit \div (IF Len(group_ids) > 1 THEN Len(group_ids) ELSE 1)
             from_graph == [i \in 1..Len(group_ids) |->
                              get_edges_from_graph(group_ids[i], each, ok)]
         IN Take(extend_until(<<>>, from_graph, 1, limit), limit)

\* FalkorDBClient.get_graph_data; ok is whether the data source answers
falkordb_get_graph_data(limit, group_id, ok) ==
    /\ LET nodes == get_all_nodes(limit, group_id, ok)
           edges == get_all_edges(limit * 2, group_id, ok)
           node_uuids == {nodes[i].uuid : i \in 1..Len(nodes)}
           valid_edges == SelectSeq(edges, LAMBDA e : /\ e.source_node_uuid \in node_uuids
                                                       /\ e.target_node_uuid \in node_uuids)
           all_labels == {"Entity"} \cup {nodes[i].primaryLabel : i \in 1..Len(nodes)}
       IN fdb' = [called |-> TRUE, limit |-> limit, group_id |-> group_id,
                  result |-> [nodes |-> nodes, edges |-> valid_edges,
                              all_labels |-> all_labels,
                              stats |-> [node_count |-> Len(nodes),
                                         edge_count |-> Len(valid_edges),
                                         label_count |-> Cardinality(all_labels)]]]
    /\ UNCHANGED <<ds_vars, fetch_vars, rename_vars, delete_vars, requests, et_vars,
                   key_vars, auth_vars, proxy_vars, crud, qry>>

NextStats ==
    \/ \E g \in DataGroups : \E rec \in ExtractedNodes(g) : knowledge_node(g, rec)
    \/ \E g \in DataGroups : \E rec \in ExtractedEdges(g) : knowledge_edge(g, rec)
    \/ \E limit \in 1..(MaxLimit + 1), group_id \in DataGroups \cup {<<>>}, ok \in BOOLEAN :
          falkordb_get_graph_data(limit, group_id, ok)

SpecStats == Init /\ [][NextStats]_vars

\* C25 as stated: the label count of the statistics leaves the Entity marker
\* out: it is the number of distinct primary labels other than Entity among
\* the nodes counted.
C25_LabelCount ==
    fdb.called =>
        fdb.result.stats.label_count =
            Cardinality({fdb.result.nodes[i].primaryLabel : i \in 1..Len(fdb.result.nodes)}
                        \ {"Entity"})

(***************************************************************************)
(* Fetches of one group while a rename is under way                        *)
(***************************************************************************)
RenameGroups == {<<"a">>, <<"b">>}

NextRenameFetch ==
    \/ \E g \in RenameGroups, u \in NodeUuids :
          writes < MaxGroupWrites /\ create_entity_direct(g, u)
    \/ \E g \in RenameGroups, s, t \in NodeUuids :
          writes < MaxGroupWrites /\ create_edge_direct(g, "e1", s, t)
    \/ \E g, new_name \in RenameGroups : rename_graph(g, new_name)
    \/ \E ok \in BOOLEAN : rename_copy(ok)
    \/ \E ok \in BOOLEAN : rename_retag_nodes(ok)
    \/ \E ok \in BOOLEAN : rename_retag_edges(ok)
    \/ \E ok \in BOOLEAN : rename_delete(ok)
    \/ \E ok \in BOOLEAN : rename_close(ok)
    \/ \E g \in RenameGroups : get_graph_data_single(g, MaxLimit)
    \/ \E ok \in BOOLEAN : query_nodes(ok)
    \/ \E ok \in BOOLEAN : query_edges(ok)

SpecRenameFetch == Init /\ [][NextRenameFetch]_vars

\* C27 as stated: every node and every edge that a fetch of the single group
\* g returns carries group_id = g, in every reachable state, a rename from or
\* to g under way included.
C27_GroupIdOfFetched ==
    (fpc = "done" /\ ~freq.all /\ data.success) =>
        /\ \A i \in 1..Len(data.nodes) : data.nodes[i].group_id = freq.group_id
        /\ \A i \in 1..Len(data.edges) : data.edges[i].group_id = freq.group_id

\* The loop of _get_all_graphs_data run to its end over the groups in the
\* order group_ids while the data source stays as it is and answers every
\* query: the merged nodes and edges.
RECURSIVE merge_groups(_, _, _, _)
merge_groups(loc, group_ids, i, limit) ==
    IF i > Len(group_ids) THEN [nodes |-> loc.all_nodes, edges |-> loc.all_edges]
    ELSE LET gid == group_ids[i]
             nodes == transform_nodes(Take(StoredNodes(get_driver(gid)), limit), gid)
             edges == transform_edges(Take(StoredEdges(get_driver(gid)), limit), gid)
             mn == merge_nodes(loc.all_nodes, loc.seen_node_ids, nodes)
             me == merge_edges(loc.all_edges, loc.seen_edge_ids, edges)
         IN merge_groups([loc EXCEPT !.all_nodes = mn.all, !.seen_node_ids = mn.seen,
                                     !.all_edges = me.all, !.seen_edge_ids = me.seen],
                         group_ids, i + 1, limit)

\* every order in which the groups of get_group_ids can be visited
Orders ==
    LET n == Len(get_group_ids)
    IN {o \in [1..n -> Elems(get_group_ids)] : \A i, j \in 1..n : o[i] = o[j] => i = j}

ReturnOne == <<"R", "E", "T", "U", "R", "N", " ", "1">>
ReturnSetLiteral == <<" ", "R", "E", "T", "U", "R", "N", " ", "'", "s", "e", "t", "'">>
DetachDelete ==
    <<"m", "a", "t", "c", "h", " ", "(", "n", ")", " ",
      "d", "e", "t", "a", "c", "h", " ", "d", "e", "l", "e", "t", "e", " ", "n">>
MergeNode ==
    <<"M", "e", "r", "g", "e", " ", "(", ":", "E", "n", "t", "i", "t", "y", " ",
      "{", "u", "u", "i", "d", ":", "'", "q", "1", "'", "}", ")">>
Queries == {ReturnOne, ReturnSetLiteral, DetachDelete, MergeNode}

\* str.upper on the characters that occur
upper_char(c) ==
    CASE c = "a" -> "A" [] c = "c" -> "C" [] c = "d" -> "D" [] c = "e" -> "E"
      [] c = "g" -> "G" [] c = "h" -> "H" [] c = "i" -> "I" [] c = "l" -> "L"
      [] c = "m" -> "M" [] c = "n" -> "N" [] c = "q" -> "Q" [] c = "r" -> "R"
      [] c = "s" -> "S" [] c = "t" -> "T" [] c = "u" -> "U" [] c = "y" -> "Y"
      [] OTHER -> c

upper(s) == [i \in 1..Len(s) |-> upper_char(s[i])]

\* kw in text
Contains(text, kw) ==
    \E i \in 1..(Len(text) - Len(kw) + 1) : SubSeq(text, i, i + Len(kw) - 1) = kw

WriteKeywords ==
    {<<"D", "E", "L", "E", "T", "E">>, <<"R", "E", "M", "O", "V", "E">>, <<"S", "E", "T">>,
     <<"C", "R", "E", "A", "T", "E">>, <<"M", "E", "R", "G", "E">>}

\* any(kw in query_upper for kw in [...]) on query.strip().upper()
has_write_keyword(query) ==
    \E kw \in WriteKeywords : Contains(upper(strip(query)), kw)

\* What the data source makes of a query it is given for graph g: the two
\* writing texts delete everything or add the node q1 if it is not there, the
\* others read.
Executed(gs, g, query) ==
    IF query = DetachDelete THEN [gs EXCEPT ![g] = [nodes |-> <<>>, edges |-> <<>>]]
    ELSE IF query = MergeNode /\ "q1" \notin {gs[g].nodes[i].n.uuid : i \in 1..Len(gs[g].nodes)}
    THEN [gs EXCEPT ![g].nodes = Append(@, [n |-> [uuid |-> "q1"], labels |-> <<"Entity">>])]
    ELSE gs

RECURSIVE ExecutedOnAll(_, _, _)
ExecutedOnAll(gs, group_ids, query) ==
    IF group_ids = <<>> THEN gs
    ELSE ExecutedOnAll(Executed(gs, Head(group_ids), query), Tail(group_ids), query)

\* GraphitiClient.execute_query on an existing graph; ok is whether the data
\* source answers
client_execute_query(query, group_id, ok) ==
    /\ get_driver(group_id) \in DOMAIN graphs
    /\ IF has_write_keyword(query)
       THEN /\ qry' = [by |-> "client", query |-> query, success |-> FALSE, sent |-> {},
                       changed |-> FALSE]
            /\ graphs' = graphs
       ELSE IF ~ok
       THEN /\ qry' = [by |-> "client", query |-> query, success |-> FALSE, sent |-> {},
                       changed |-> FALSE]
            /\ graphs' = graphs
       ELSE /\ graphs' = Executed(graphs, get_driver(group_id), query)
            /\ qry' = [by |-> "client", query |-> query, success |-> TRUE,
                       sent |-> {<<get_driver(group_id), query>>},
                       changed |-> graphs' # graphs]
    /\ UNCHANGED <<writes, fetch_vars, rename_vars, delete_vars, requests, et_vars, key_vars,
                   auth_vars, proxy_vars, crud, fdb>>

\* POST /api/query: graph.query(request.query) on the graph asked for (<<gid>>)
\* or on every graph of get_group_ids (<<>>)
execute_query(query, graph_id, ok) ==
    /\ graph_id # <<>> => graph_id[1] \in DOMAIN graphs
    /\ LET group_ids == IF graph_id # <<>> THEN graph_id
                        ELSE IF ok THEN falkordb_get_group_ids ELSE <<>>
       IN IF ok
          THEN /\ graphs' = ExecutedOnAll(graphs, group_ids, query)
               /\ qry' = [by |-> "route", query |-> query, success |-> TRUE,
                          sent |-> {<<gid, query>> : gid \in Elems(group_ids)},
                          changed |-> graphs' # graphs]
          ELSE /\ graphs' = graphs
               /\ qry' = [by |-> "route", query |-> query, success |-> TRUE, sent |-> {},
                          changed |-> FALSE]
    /\ UNCHANGED <<writes, fetch_vars, rename_vars, delete_vars, requests, et_vars, key_vars,
                   auth_vars, proxy_vars, crud, fdb>>

\* POST /api/query/cypher: execute_query(QueryRequest(query=request.query))
execute_cypher(query, ok) ==
    /\ LET request == [query |-> query, graph_id |-> <<>>]
       IN execute_query(request.query, request.graph_id, ok)

NextQuery ==
    \/ \E g \in DataGroups : \E rec \in ExtractedNodes(g) : knowledge_node(g, rec)
    \/ \E g \in DataGroups : \E rec \in ExtractedEdges(g) : knowledge_edge(g, rec)
    \/ \E query \in Queries, group_id \in DataGroups, ok \in BOOLEAN :
          client_execute_query(query, group_id, ok)
    \/ \E query \in Queries, g \in DataGroups, ok \in BOOLEAN :
          execute_query(query, <<g>>, ok)
    \/ \E query \in Queries, ok \in BOOLEAN : execute_cypher(query, ok)

SpecQuery == Init /\ [][NextQuery]_vars

\* C29 as stated: a query whose text contains DELETE, REMOVE, SET, CREATE or
\* MERGE in any case is answered success=false and is not sent to the data
\* source, through GraphitiClient.execute_query and through the query routes,
\* and no query request changes a graph.
C29_ReadOnly ==
    qry.by # "none" =>
        /\ has_write_keyword(qry.query) => (~qry.success /\ qry.sent = {})
        /\ ~qry.changed

====
